---------------------------- MODULE Spec2Model ----------------------------
(***************************************************************************)
(* A model of the gwportal ingest, reconciliation and target/tile linking  *)
(* scripts: SIMPLE_raw_ingest.py, CHECK_missing_files.py and the           *)
(* management commands around them.                                        *)
(*                                                                         *)
(* Strings are sequences of one-character strings, so that the substring,  *)
(* prefix, split and digit tests of the Python code are computed and not   *)
(* assumed.  Optional values (None in Python, NULL in the database) are    *)
(* sets with at most one element: {} is None, {x} is the value x.          *)
(***************************************************************************)
EXTENDS Integers, Sequences, FiniteSets, TLC

(***************************************************************************)
(* Python string operations                                                *)
(***************************************************************************)
LowerChars == <<"a","b","c","d","e","f","g","h","i","j","k","l","m","n","o","p","q","r","s","t","u","v","w","x","y","z">>

UpperChars == <<"A","B","C","D","E","F","G","H","I","J","K","L","M","N","O","P","Q","R","S","T","U","V","W","X","Y","Z">>

DigitChars == <<"0","1","2","3","4","5","6","7","8","9">>

\* s.find(c) + 1: the first place of the character c in s, 0 when absent
IndexIn(c, s) == IF \E i \in 1..Len(s) : s[i] = c
                 THEN CHOOSE i \in 1..Len(s) : s[i] = c /\ \A j \in 1..(i - 1) : s[j] # c
                 ELSE 0

isdigit_char(c) == IndexIn(c, DigitChars) # 0

\* str.isdigit(): non-empty and every character a digit
isdigit(s) == Len(s) > 0 /\ \A i \in 1..Len(s) : isdigit_char(s[i])

upper(s) == [i \in 1..Len(s) |->
               LET k == IndexIn(s[i], LowerChars) IN IF k = 0 THEN s[i] ELSE UpperChars[k]]

lower(s) == [i \in 1..Len(s) |->
               LET k == IndexIn(s[i], UpperChars) IN IF k = 0 THEN s[i] ELSE LowerChars[k]]

\* p in s
contains(s, p) == \E i \in 1..(Len(s) - Len(p) + 1) : SubSeq(s, i, i + Len(p) - 1) = p

startswith(s, p) == Len(p) <= Len(s) /\ SubSeq(s, 1, Len(p)) = p

endswith(s, p) == Len(p) <= Len(s) /\ SubSeq(s, Len(s) - Len(p) + 1, Len(s)) = p

\* s.split('_')
RECURSIVE split(_)
split(s) == LET k == IndexIn("_", s)
            IN IF k = 0 THEN <<s>>
               ELSE <<SubSeq(s, 1, k - 1)>> \o split(SubSeq(s, k + 1, Len(s)))

\* '_'.join(parts)
RECURSIVE join(_)
join(parts) == IF Len(parts) = 0 THEN <<>>
               ELSE IF Len(parts) = 1 THEN parts[1]
               ELSE parts[1] \o <<"_">> \o join(Tail(parts))

\* ''.join(filter(str.isdigit, s))
digits_of(s) == SelectSeq(s, isdigit_char)

\* int(s) of a string of decimal digits
RECURSIVE int(_)
int(s) == IF Len(s) = 0 THEN 0
          ELSE 10 * int(SubSeq(s, 1, Len(s) - 1)) + (IndexIn(s[Len(s)], DigitChars) - 1)

\* Optional values
None == {}

Some(x) == {x}

the(o) == CHOOSE x \in o : TRUE

\* Python truthiness of an optional number: None and 0.0 are both false
truthy(o) == o # None /\ o # Some(0)

(***************************************************************************)
(* The files the observatory can hold: <root>/<unit>/<folder>/<name>, with *)
(* the coordinates the FITS header of the file carries.  The catalog is    *)
(* listed in path order, the order discover_fits_files sorts into.         *)
(***************************************************************************)
Catalog == <<
  [unit |-> <<"7","D","T","0","1">>, folder |-> <<"2","0","2","5","-","0","2","-","2","8","_","7","D","T","0","1">>,
   name |-> <<"7","D","T","0","1","_","2","0","2","5","0","3","0","1","_","0","0","1","5","0","0","_","M","5","1","_","r","_","1","x","1","_","1","0","0","s","_","0","0","0","9",".","f","i","t","s">>,
   object_ra |-> Some(202), object_dec |-> Some(47)],
  [unit |-> <<"7","D","T","0","1">>, folder |-> <<"2","0","2","5","-","0","3","-","0","1","_","7","D","T","0","1">>,
   name |-> <<"7","D","T","0","1","_","2","0","2","5","0","3","0","1","_","0","2","0","0","0","0","_","B","I","A","S","_","r","_","1","x","1","_","0","s","_","0","0","0","1",".","f","i","t","s">>,
   object_ra |-> None, object_dec |-> None],
  [unit |-> <<"7","D","T","0","1">>, folder |-> <<"2","0","2","5","-","0","3","-","0","1","_","7","D","T","0","1">>,
   name |-> <<"7","D","T","0","1","_","2","0","2","5","0","3","0","1","_","0","3","1","5","2","0","_","M","5","1","_","r","_","1","x","1","_","1","0","0","s","_","0","0","0","2",".","f","i","t","s">>,
   object_ra |-> None, object_dec |-> None],
  [unit |-> <<"7","D","T","0","1">>, folder |-> <<"2","0","2","5","-","0","3","-","0","1","_","7","D","T","0","1">>,
   name |-> <<"7","D","T","0","1","_","2","0","2","5","0","3","0","1","_","0","3","1","6","0","0","_","M","5","1","_","r","_","1","x","1","_","1","0","0","s","_","0","0","0","3",".","f","i","t","s">>,
   object_ra |-> Some(202), object_dec |-> Some(47)],
  [unit |-> <<"7","D","T","0","1">>, folder |-> <<"2","0","2","5","-","0","3","-","0","1","_","7","D","T","0","1">>,
   name |-> <<"7","D","T","0","1","_","2","0","2","5","0","3","0","1","_","0","3","1","7","0","0","_","T","2","5","3","4","4","_","r","_","1","x","1","_","1","0","0","s","_","0","0","0","4",".","f","i","t","s">>,
   object_ra |-> Some(10), object_dec |-> Some(20)],
  [unit |-> <<"7","D","T","0","1">>, folder |-> <<"2","0","2","5","-","0","3","-","0","1","_","7","D","T","0","1">>,
   name |-> <<"7","D","T","0","1","_","2","0","2","5","0","3","0","1","_","0","3","1","8","0","0","_","F","O","C","U","S","_","r","_","1","x","1","_","1","s","_","0","0","0","5",".","f","i","t","s">>,
   object_ra |-> None, object_dec |-> None],
  [unit |-> <<"7","D","T","0","1">>, folder |-> <<"2","0","2","5","-","0","3","-","0","1","_","7","D","T","0","1">>,
   name |-> <<"i","m","a","g","e","0","0","1",".","f","i","t","s">>,
   object_ra |-> None, object_dec |-> None],
  [unit |-> <<"7","D","T","0","2">>, folder |-> <<"2","0","2","5","-","0","3","-","0","1","_","7","D","T","0","2">>,
   name |-> <<"7","D","T","0","1","_","2","0","2","5","0","3","0","1","_","0","3","1","5","2","0","_","M","5","1","_","r","_","1","x","1","_","1","0","0","s","_","0","0","0","2",".","f","i","t","s">>,
   object_ra |-> Some(0), object_dec |-> Some(40)],
  [unit |-> <<"7","D","T","0","2">>, folder |-> <<"2","0","2","5","-","0","3","-","0","1","_","7","D","T","0","2">>,
   name |-> <<"7","D","T","0","2","_","2","0","2","5","0","3","0","1","_","0","3","1","9","0","0","_","M","5","1","_","r","_","1","x","1","_","1","0","0","s","_","0","0","0","1",".","f","i","t","s">>,
   object_ra |-> Some(200), object_dec |-> Some(40)],
  [unit |-> <<"7","D","T","0","2">>, folder |-> <<"2","0","2","5","-","0","3","-","0","1","_","7","D","T","0","2">>,
   name |-> <<"L","I","G","H","T","_","M","5","1","_","2","0","2","3","-","1","0","-","1","2","_","0","3","-","0","1","-","1","4","_","r","_","6","0","s","_","0","0","2","1",".","f","i","t","s">>,
   object_ra |-> None, object_dec |-> None] >>

FileIds == 1..Len(Catalog)

\* os.path.basename(file_path)
basename(f) == Catalog[f].name

(***************************************************************************)
(* FilenamePatternAnalyzer (survey/models.py): an ordered list of filename *)
(* grammars over the underscore-delimited tokens; the first grammar that   *)
(* matches gives the pattern name and the parsed fields, and a filename    *)
(* that matches none raises ValueError.                                    *)
(***************************************************************************)
IsUnitTok(t) == startswith(t, <<"7","D","T">>) /\ isdigit(SubSeq(t, 4, Len(t)))

IsDate8(t) == Len(t) = 8 /\ isdigit(t)

IsTime6(t) == Len(t) = 6 /\ isdigit(t)

IsHyphenDate(t) == /\ Len(t) = 10
                   /\ t[5] = "-" /\ t[8] = "-"
                   /\ isdigit(SubSeq(t, 1, 4)) /\ isdigit(SubSeq(t, 6, 7)) /\ isdigit(SubSeq(t, 9, 10))

IsHyphenTime(t) == /\ Len(t) = 8
                   /\ t[3] = "-" /\ t[6] = "-"
                   /\ isdigit(SubSeq(t, 1, 2)) /\ isdigit(SubSeq(t, 4, 5)) /\ isdigit(SubSeq(t, 7, 8))

IsExpTok(t) == Len(t) > 1 /\ endswith(t, <<"s">>) /\ isdigit_char(t[1])

IsSeqFits(t) == endswith(t, <<".","f","i","t","s">>) /\ isdigit(SubSeq(t, 1, Len(t) - 5))

FrameTypeTokens == {<<"L","I","G","H","T">>, <<"D","A","R","K">>, <<"B","I","A","S">>, <<"F","L","A","T">>}

\* <unit>_<YYYYMMDD>_<HHMMSS>_<object>_<filter>_<binning>_<exptime>s_<seq>.fits
MatchesNew(tk) == /\ Len(tk) = 8
                  /\ IsUnitTok(tk[1]) /\ IsDate8(tk[2]) /\ IsTime6(tk[3])
                  /\ Len(tk[4]) > 0 /\ Len(tk[5]) > 0
                  /\ IsExpTok(tk[7]) /\ IsSeqFits(tk[8])

\* <TYPE>_<object>_<YYYY-MM-DD>_<HH-MM-SS>_<filter>_<exptime>s_<seq>.fits
MatchesOldV1(tk) == /\ Len(tk) = 7
                    /\ tk[1] \in FrameTypeTokens
                    /\ IsHyphenDate(tk[3]) /\ IsHyphenTime(tk[4])
                    /\ IsExpTok(tk[6]) /\ IsSeqFits(tk[7])

\* <word>_<object>_<YYYY-MM-DD>_<HH-MM-SS>_<filter>_<exptime>s_<seq>.fits: the old format
\* whatever its first token
MatchesOldV1Simple(tk) == /\ Len(tk) = 7
                          /\ Len(tk[1]) > 0
                          /\ IsHyphenDate(tk[3]) /\ IsHyphenTime(tk[4])
                          /\ IsExpTok(tk[6]) /\ IsSeqFits(tk[7])

\* the grammars in their priority order, the most specific first
GrammarOrder == <<"NEW_FITS_PATTERN", "OLD_V1_FITS_PATTERN", "OLD_V1_SIMPLE_PATTERN">>

grammar_matches(g, tk) ==
  CASE g = "NEW_FITS_PATTERN" -> MatchesNew(tk)
    [] g = "OLD_V1_FITS_PATTERN" -> MatchesOldV1(tk)
    [] g = "OLD_V1_SIMPLE_PATTERN" -> MatchesOldV1Simple(tk)

\* the positional fields of a grammar
grammar_fields(g, tk) ==
  CASE g = "NEW_FITS_PATTERN" -> [object_name |-> tk[4], unit |-> tk[1], date |-> tk[2]]
    [] g = "OLD_V1_FITS_PATTERN" -> [frame_type |-> tk[1], object_info |-> tk[2], date |-> tk[3]]
    [] g = "OLD_V1_SIMPLE_PATTERN" -> [object_name |-> tk[2], date |-> tk[3]]

\* the grammars that match a filename, in priority order
matching_grammars(filename) ==
  SelectSeq(GrammarOrder, LAMBDA g : grammar_matches(g, split(filename)))

\* a variant of the analyzer that takes the last grammar that matches
FilenamePatternAnalyzerLastMatch(filename) ==
  LET m == matching_grammars(filename)
  IN  IF Len(m) = 0 THEN [ok |-> FALSE, filename_pattern |-> "", parsed_filename |-> <<>>]
      ELSE [ok |-> TRUE, filename_pattern |-> m[Len(m)],
            parsed_filename |-> grammar_fields(m[Len(m)], split(filename))]

\* The analyzer of a filename: the first grammar that matches; ok = FALSE is the ValueError
FilenamePatternAnalyzer(filename) ==
  LET m == matching_grammars(filename)
  IN  IF Len(m) = 0 THEN [ok |-> FALSE, filename_pattern |-> "", parsed_filename |-> <<>>]
      ELSE [ok |-> TRUE, filename_pattern |-> m[1],
            parsed_filename |-> grammar_fields(m[1], split(filename))]

\* The analysis of every catalog file, computed once
Analyzed == [f \in FileIds |-> FilenamePatternAnalyzer(basename(f))]

\* field in parsed and parsed[field]
HasField(parsed, field) == field \in DOMAIN parsed /\ Len(parsed[field]) > 0

(***************************************************************************)
(* SIMPLE_raw_ingest.py: the helpers of the ingest                         *)
(***************************************************************************)
\* filter_unwanted_files, the decision for one file: the exclusion reason, "" to keep
ExclusionReason(filename, exclude_focus, exclude_test) ==
  LET analyzer == FilenamePatternAnalyzer(filename)
  IN  IF ~analyzer.ok THEN "unparseable_files"
      ELSE IF analyzer.filename_pattern = "" THEN "unparseable_files"
      ELSE IF exclude_focus /\ (\/ contains(upper(filename), <<"F","O","C","U","S">>)
                                \/ contains(lower(filename), <<"f","o","c","u","s","t","e","s","t">>)
                                \/ contains(lower(filename), <<"a","u","t","o","f","o","c","u","s">>))
           THEN "focus_files"
      ELSE IF exclude_test /\ (\/ contains(upper(filename), <<"T","E","S","T">>)
                               \/ contains(lower(filename), <<"t","e","s","t">>)
                               \/ contains(upper(filename), <<"C","A","L","I","B">>))
           THEN "test_files"
      ELSE ""

\* the reason of every catalog file under every setting of the toggles
Exclusion ==
  [f \in FileIds |-> [exclude_focus \in BOOLEAN |-> [exclude_test \in BOOLEAN |->
     ExclusionReason(basename(f), exclude_focus, exclude_test)]]]

\* filter_unwanted_files: the files kept, in order
filter_unwanted_files(file_paths, exclude_focus, exclude_test) ==
  SelectSeq(file_paths, LAMBDA f : Exclusion[f][exclude_focus][exclude_test] = "")

\* exclusion_stats[reason]
exclusion_stats(file_paths, exclude_focus, exclude_test, reason) ==
  Cardinality({i \in 1..Len(file_paths) :
                 Exclusion[file_paths[i]][exclude_focus][exclude_test] = reason})

\* get_object_name_from_analyzer: None when nothing was parsed
get_object_name_from_analyzer(analyzer) ==
  LET parsed == analyzer.parsed_filename
  IN  IF ~analyzer.ok THEN None
      ELSE IF HasField(parsed, "object_info") THEN Some(parsed["object_info"])
      ELSE IF HasField(parsed, "object_name") THEN Some(parsed["object_name"])
      ELSE IF HasField(parsed, "focus_or_object") THEN Some(parsed["focus_or_object"])
      ELSE None

FirstTypeField(parsed) ==
  IF HasField(parsed, "frame_type") THEN Some(parsed["frame_type"])
  ELSE IF HasField(parsed, "imagetyp") THEN Some(parsed["imagetyp"])
  ELSE IF HasField(parsed, "obstype") THEN Some(parsed["obstype"])
  ELSE None

get_frame_type_from_analyzer(analyzer) ==
  LET parsed == analyzer.parsed_filename
      explicit == FirstTypeField(parsed)
      object_name == IF HasField(parsed, "object_info") THEN parsed["object_info"]
                     ELSE IF "object_name" \in DOMAIN parsed THEN parsed["object_name"]
                     ELSE <<>>
  IN  IF ~analyzer.ok THEN <<"S","C","I","E","N","C","E">>
      ELSE IF explicit # None
           THEN IF upper(the(explicit)) = <<"L","I","G","H","T">> THEN <<"S","C","I","E","N","C","E">> ELSE upper(the(explicit))
      ELSE IF ("object_info" \in DOMAIN parsed \/ "object_name" \in DOMAIN parsed)
              /\ Len(object_name) > 0
           THEN IF contains(upper(object_name), <<"B","I","A","S">>) THEN <<"B","I","A","S">>
                ELSE IF contains(upper(object_name), <<"D","A","R","K">>) THEN <<"D","A","R","K">>
                ELSE IF contains(upper(object_name), <<"F","L","A","T">>) THEN <<"F","L","A","T">>
                ELSE <<"S","C","I","E","N","C","E">>
      ELSE <<"S","C","I","E","N","C","E">>

\* object_name.startswith('T') and len(object_name) > 1 and the rest holds a digit
IsTileName(object_name) ==
  /\ startswith(object_name, <<"T">>) /\ Len(object_name) > 1
  /\ Len(digits_of(SubSeq(object_name, 2, Len(object_name)))) > 0

\* int(''.join(filter(str.isdigit, object_name[1:])))
TileIdOf(object_name) == int(digits_of(SubSeq(object_name, 2, Len(object_name))))

should_create_target(object_name, frame_type) ==
  IF Len(object_name) = 0 \/ object_name = <<"U","N","K","N","O","W","N">> THEN FALSE
  ELSE IF frame_type \in {<<"B","I","A","S">>, <<"D","A","R","K">>, <<"F","L","A","T">>} THEN FALSE
  ELSE IF frame_type # <<"S","C","I","E","N","C","E">> THEN FALSE
  ELSE IF upper(object_name) \in {<<"B","I","A","S">>, <<"D","A","R","K">>, <<"F","L","A","T">>, <<"C","A","L","I","B">>, <<"C","A","L","I","B","R","A","T","I","O","N">>} THEN FALSE
  ELSE IF \E pattern \in {<<"F","O","C","U","S">>, <<"T","E","S","T">>, <<"A","U","T","O","F","O","C","U","S">>, <<"F","O","C","U","S","T","E","S","T">>} :
            contains(upper(object_name), pattern) THEN FALSE
  ELSE IF IsTileName(object_name) THEN FALSE
  ELSE TRUE

AnyOf(patterns, s) == \E pattern \in patterns : contains(s, pattern)

\* a variant of determine_target_type without its first test, for the calibration words
determine_target_type_unguarded(target_name) ==
  LET name_upper == upper(target_name)
  IN  IF AnyOf({<<"G","R","B">>, <<"S","N">>, <<"A","T">>, <<"T","O","O">>}, name_upper) THEN "TOO"
      ELSE IF AnyOf({<<"L","T","T">>, <<"S","A">>, <<"P","G">>, <<"F","E","I","G","E">>, <<"W","D">>}, name_upper) THEN "STD"
      ELSE IF AnyOf({<<"T","E","S","T">>, <<"F","O","C","U","S">>}, name_upper) THEN "TEST"
      ELSE "EXSCI"

determine_target_type(target_name) ==
  LET name_upper == upper(target_name)
  IN  IF AnyOf({<<"B","I","A","S">>, <<"D","A","R","K">>, <<"F","L","A","T">>, <<"C","A","L","I","B">>}, name_upper) THEN "TEST"
      ELSE IF AnyOf({<<"G","R","B">>, <<"S","N">>, <<"A","T">>, <<"T","O","O">>}, name_upper) THEN "TOO"
      ELSE IF AnyOf({<<"L","T","T">>, <<"S","A">>, <<"P","G">>, <<"F","E","I","G","E">>, <<"W","D">>}, name_upper) THEN "STD"
      ELSE IF AnyOf({<<"T","E","S","T">>, <<"F","O","C","U","S">>}, name_upper) THEN "TEST"
      ELSE "EXSCI"

(***************************************************************************)
(* CHECK_missing_files.py: the helpers of the reconciliation               *)
(***************************************************************************)
exclude_patterns == {<<"f","o","c","u","s">>, <<"t","e","s","t">>, <<"m","a","s","t","e","r">>, <<"c","a","l","i","b">>, <<"l","a","m","p">>, <<"t","w","i","l","i","g","h","t">>,
                     <<"s","n","a","p","s","h","o","t">>, <<"c","o","r","s","u","b">>, <<"s","u","b","_">>, <<"a","u","t","o","f","o","c","u","s">>, <<"a","f","_">>, <<"d","e","f","o","c","u","s","_","t","e","s","t">>}

special_excludes == {<<"b","i","a","s",".","f","i","t","s">>, <<"m","a","s","k","6","0",".","f","i","t","s">>, <<"s","n","a","p","s","h","o","t">>}

is_science_file(filename) ==
  LET filename_lower == lower(filename)
  IN  IF filename_lower \in special_excludes THEN FALSE
      ELSE IF \E pattern \in exclude_patterns : contains(filename_lower, pattern) THEN FALSE
      ELSE TRUE

\* get_filename_pattern: the structural fingerprint of a filename
get_filename_pattern(filename) ==
  LET parts == split(filename)
      last_part == parts[Len(parts)]
      number_part == SubSeq(last_part, 1, Len(last_part) - 5)
      new_last == IF endswith(last_part, <<".","f","i","t","s">>) /\ isdigit(number_part)
                  THEN <<"[","N","U","M","]",".","f","i","t","s">> ELSE last_part
  IN  IF Len(parts) >= 6
      THEN join([i \in 1..Len(parts) |->
                   IF i = Len(parts) THEN new_last
                   ELSE IF i = 4 THEN <<"[","O","B","J","E","C","T","]">> ELSE parts[i]])
      ELSE filename

\* The places where the regular expression 7DT\d+_(\d{8})_ matches: <<start, first digit of the date>>
DateMatches(s) ==
  {m \in (1..Len(s)) \X (1..Len(s)) :
     /\ m[1] + 2 <= Len(s) /\ SubSeq(s, m[1], m[1] + 2) = <<"7","D","T">>
     /\ m[2] >= m[1] + 5 /\ m[2] + 8 <= Len(s)
     /\ isdigit(SubSeq(s, m[1] + 3, m[2] - 2))
     /\ s[m[2] - 1] = "_"
     /\ isdigit(SubSeq(s, m[2], m[2] + 7))
     /\ s[m[2] + 8] = "_"}

\* re.search(r'7DT\d+_(\d{8})_', filename), formatted YYYY-MM-DD; None without a match
filename_date(filename) ==
  LET ms == DateMatches(filename)
  IN  IF ms = {} THEN None
      ELSE LET m == CHOOSE x \in ms : \A y \in ms : x[1] <= y[1]
               d == SubSeq(filename, m[2], m[2] + 7)
           IN  Some(SubSeq(d, 1, 4) \o <<"-">> \o SubSeq(d, 5, 6) \o <<"-">> \o SubSeq(d, 7, 8))

\* re.search(r'(\d{4}-\d{2}-\d{2})', folder_name); None without a match
folder_date(folder_name) ==
  LET ms == {i \in 1..Len(folder_name) :
               i + 9 <= Len(folder_name) /\ IsHyphenDate(SubSeq(folder_name, i, i + 9))}
  IN  IF ms = {} THEN None
      ELSE LET i == CHOOSE x \in ms : \A y \in ms : x <= y
           IN  Some(SubSeq(folder_name, i, i + 9))

\* file_date_info[file_path]
file_date_info(f) ==
  [filename |-> Catalog[f].name,
   filename_date |-> filename_date(Catalog[f].name),
   folder_date |-> folder_date(Catalog[f].folder),
   folder_name |-> Catalog[f].folder,
   full_path |-> f]

DateInfo == [f \in FileIds |-> file_date_info(f)]

(***************************************************************************)
(* Bounds of the model                                                     *)
(***************************************************************************)
\* files on disk at most
MaxDisk == 2

\* --limit: none, or the first file only
Limits == {0, 1}

\* --workers
WorkerCounts == {1, 2}

\* pre_process_targets: sample_size = min(1000, len(file_paths))
SAMPLE_SIZE == 1000

\* enhanced_ingest: parallel mode is switched on from this many files
AUTO_PARALLEL_FILES == 100000

Dates == {<<"2","0","2","5","-","0","2","-","2","8">>, <<"2","0","2","5","-","0","3","-","0","1">>}

Procs == {1, 2}

(***************************************************************************)
(* State                                                                   *)
(***************************************************************************)
VARIABLES
  fs,        \* the filesystem: [files: the catalog files on disk, root_ok, denied: units not readable];
             \* for the monitor also the clock, the observation folders and the state file
  frames,    \* the four frame tables as one sequence of rows in primary-key order
  targets,   \* the Target table, a set of rows
  tiles,     \* the ids of the Tile table
  nights,    \* the dates of the Night table
  proc,      \* the ingest processes: position, options and accumulators of each; the monitor
             \* process of update_nights; the run over a large batch
  hist,      \* per process, the summary of its last run of enhanced_ingest; for the monitor, the
             \* stability checks each folder passed in a row; for populate_data, the
             \* FilterPosition rows of the filter wheel
  report     \* what the last reconciliation run reported, or what the last monitor cycle triggered,
             \* or the last call of a function with its arguments and its result

vars == <<fs, frames, targets, tiles, nights, proc, hist, report>>

\* original_filename of every frame row, over the four tables
db_files(frs) == {frs[i].original_filename : i \in 1..Len(frs)}

RECURSIVE sorted(_)
sorted(S) == IF S = {} THEN <<>>
             ELSE LET m == CHOOSE x \in S : \A y \in S : x <= y
                  IN  <<m>> \o sorted(S \ {m})

Min(a, b) == IF a <= b THEN a ELSE b

Max(a, b) == IF a >= b THEN a ELSE b

(***************************************************************************)
(* discover_fits_files: the files of the date's folders of every readable  *)
(* unit, sorted; empty when the base path does not exist                   *)
(***************************************************************************)
\* a variant of discover_fits_files that gives up the whole scan when one unit cannot be read
discover_fits_files_aborting(date_str) ==
  IF ~fs.root_ok \/ fs.denied # {} THEN <<>>
  ELSE sorted({f \in fs.files :
                 /\ \/ Catalog[f].folder = date_str
                    \/ startswith(Catalog[f].folder, date_str \o <<"_">>)
                 /\ \/ endswith(Catalog[f].name, <<".","f","i","t","s">>)
                    \/ endswith(Catalog[f].name, <<".","f","i","t","s",".","f","z">>)})

discover_fits_files(date_str) ==
  IF ~fs.root_ok THEN <<>>
  ELSE sorted({f \in fs.files :
                 /\ Catalog[f].unit \notin fs.denied
                 /\ \/ Catalog[f].folder = date_str
                    \/ startswith(Catalog[f].folder, date_str \o <<"_">>)
                 /\ \/ endswith(Catalog[f].name, <<".","f","i","t","s">>)
                    \/ endswith(Catalog[f].name, <<".","f","i","t","s",".","f","z">>)})

(***************************************************************************)
(* cleanup_existing_data                                                   *)
(***************************************************************************)
test_target_names == {<<"B","I","A","S">>, <<"D","A","R","K">>, <<"F","L","A","T">>}

\* a variant of cleanup_existing_data that takes any answer to its prompt for YES
cleanup_existing_data_any_answer(date_str, confirm, response) ==
  LET test_targets == {t \in targets : t.name \in test_target_names}
      kept == SelectSeq(frames, LAMBDA r : r.night # date_str)
  IN  IF date_str \notin nights THEN [ok |-> TRUE, frames |-> frames, targets |-> targets]
      ELSE [ok |-> TRUE,
            frames |-> [i \in 1..Len(kept) |->
                          IF kept[i].target # None /\ the(kept[i].target) \in test_target_names
                          THEN [kept[i] EXCEPT !.target = None] ELSE kept[i]],
            targets |-> targets \ test_targets]

\* [ok: the return value, frames, targets: the tables afterwards]
cleanup_existing_data(date_str, confirm, response) ==
  LET total_frames == Cardinality({i \in 1..Len(frames) : frames[i].night = date_str})
      test_targets == {t \in targets : t.name \in test_target_names}
      unchanged == [ok |-> TRUE, frames |-> frames, targets |-> targets]
      kept == SelectSeq(frames, LAMBDA r : r.night # date_str)
  IN  IF date_str \notin nights THEN unchanged
      ELSE IF total_frames = 0 /\ test_targets = {} THEN unchanged
      ELSE IF ~confirm /\ response # "YES"
           THEN [ok |-> FALSE, frames |-> frames, targets |-> targets]
      ELSE [ok |-> TRUE,
            frames |-> [i \in 1..Len(kept) |->
                          IF kept[i].target # None /\ the(kept[i].target) \in test_target_names
                          THEN [kept[i] EXCEPT !.target = None] ELSE kept[i]],
            targets |-> targets \ test_targets]

(***************************************************************************)
(* pre_process_targets                                                     *)
(***************************************************************************)
\* file_paths[::step]
Stride(file_paths, step) ==
  LET n == (Len(file_paths) + step - 1) \div step
  IN  [k \in 1..n |-> file_paths[1 + (k - 1) * step]]

\* the sampled files; the division raises ZeroDivisionError on an empty list
sampled_files(file_paths) ==
  LET sample_size == Min(SAMPLE_SIZE, Len(file_paths))
  IN  Stride(file_paths, Max(1, Len(file_paths) \div sample_size))

\* the Target name a sampled file asks for, if any
target_candidate(f) ==
  LET analyzer == Analyzed[f]
      object_name == get_object_name_from_analyzer(analyzer)
      frame_type == get_frame_type_from_analyzer(analyzer)
  IN  IF /\ analyzer.ok
         /\ object_name # None
         /\ the(object_name) # <<"U", "N", "K", "N", "O", "W", "N">>
         /\ should_create_target(the(object_name), frame_type)
         /\ ~IsTileName(the(object_name))
      THEN object_name ELSE None

Candidates == [f \in FileIds |-> target_candidate(f)]

\* the names pre_process_targets decides to create Targets for
targets_to_create(file_paths) ==
  LET sf == sampled_files(file_paths)
  IN  UNION {Candidates[sf[k]] : k \in 1..Len(sf)}

\* Target.objects.get_or_create(name=..., defaults={ra: 0.0, dec: 0.0, target_type: ...})
get_or_create_target(tgts, name) ==
  IF \E t \in tgts : t.name = name THEN tgts
  ELSE tgts \cup {[name |-> name, ra |-> 0, dec |-> 0, target_type |-> determine_target_type(name)]}

RECURSIVE create_all(_, _)
create_all(tgts, names) ==
  IF names = {} THEN tgts
  ELSE LET n == CHOOSE x \in names : TRUE
       IN  create_all(get_or_create_target(tgts, n), names \ {n})

\* [raised: ZeroDivisionError, targets: the Target table afterwards]
pre_process_targets(tgts, file_paths) ==
  IF Len(file_paths) = 0 THEN [raised |-> TRUE, targets |-> tgts]
  ELSE [raised |-> FALSE, targets |-> create_all(tgts, targets_to_create(file_paths))]

(***************************************************************************)
(* post_process_targets                                                    *)
(***************************************************************************)
\* Target.objects.filter(name=object_name).first()
first_target(tgts, name) ==
  IF \E t \in tgts : t.name = name THEN Some(CHOOSE t \in tgts : t.name = name) ELSE None

\* a variant of the loop body without the null-checks: it links whatever it resolves
link_frame_relinking(st, i, tls) ==
  LET frame == st.frames[i]
      object_name == frame.object_name
      tile_found == IsTileName(object_name) /\ TileIdOf(object_name) \in tls
      target == first_target(st.targets, object_name)
  IN  IF Len(object_name) = 0 \/ object_name = <<"U","N","K","N","O","W","N">> THEN st
      ELSE IF tile_found
      THEN [st EXCEPT !.frames[i].tile = Some(TileIdOf(object_name)), !.linked_tiles = @ + 1]
      ELSE IF target = None THEN st
      ELSE [st EXCEPT !.frames[i].target = Some(object_name), !.linked_targets = @ + 1]

\* the body of the loop for the frame at row i; st = [frames, targets, linked_targets, linked_tiles, coordinates_updated]
link_frame(st, i, tls) ==
  LET frame == st.frames[i]
      object_name == frame.object_name
      tile_found == IsTileName(object_name) /\ TileIdOf(object_name) \in tls
      target == first_target(st.targets, object_name)
      backfill == /\ truthy(frame.object_ra) /\ truthy(frame.object_dec)
                  /\ (the(target).ra = 0 \/ the(target).dec = 0)
  IN  IF Len(object_name) = 0 \/ object_name = <<"U","N","K","N","O","W","N">> THEN st
      ELSE IF tile_found
      THEN IF frame.tile = None
           THEN [st EXCEPT !.frames[i].tile = Some(TileIdOf(object_name)),
                           !.linked_tiles = @ + 1]
           ELSE st
      ELSE IF target = None THEN st
      ELSE [st EXCEPT
              !.frames[i].target = IF frame.target = None THEN Some(object_name) ELSE @,
              !.linked_targets = IF frame.target = None THEN @ + 1 ELSE @,
              !.targets = IF backfill
                          THEN (@ \ {the(target)}) \cup
                               {[the(target) EXCEPT !.ra = the(frame.object_ra),
                                                    !.dec = the(frame.object_dec)]}
                          ELSE @,
              !.coordinates_updated = IF backfill THEN @ + 1 ELSE @]

RECURSIVE link_all(_, _, _)
link_all(st, rows, tls) ==
  IF Len(rows) = 0 THEN st
  ELSE link_all(link_frame(st, Head(rows), tls), Tail(rows), tls)

\* the rows of the queryset, in primary-key order
science_frames(frs, night, debug) ==
  SelectSeq([i \in 1..Len(frs) |-> i],
            LAMBDA i : /\ frs[i].frame_type = <<"S","C","I","E","N","C","E">>
                       /\ frs[i].night = night
                       /\ (debug \/ (frs[i].target = None /\ frs[i].tile = None)))

post_process_targets(frs, tgts, tls, night, debug) ==
  link_all([frames |-> frs, targets |-> tgts,
            linked_targets |-> 0, linked_tiles |-> 0, coordinates_updated |-> 0],
           science_frames(frs, night, debug), tls)

(***************************************************************************)
(* FrameManager.import_files (survey/models.py): per file, the lookup of   *)
(* the dedup key, the classification and the insert.  A worker keeps its   *)
(* own counters; they are merged when the batch completes.                 *)
(***************************************************************************)
\* the row a classified file is stored as
classified(f) ==
  LET analyzer == Analyzed[f]
      object_name == get_object_name_from_analyzer(analyzer)
  IN  [original_filename |-> basename(f),
       frame_type |-> get_frame_type_from_analyzer(analyzer),
       night |-> <<>>,
       object_name |-> IF object_name = None THEN <<>> ELSE the(object_name),
       object_ra |-> Catalog[f].object_ra,
       object_dec |-> Catalog[f].object_dec,
       target |-> None,
       tile |-> None]

Rows == [f \in FileIds |-> classified(f)]

new_frame(f, night) == [Rows[f] EXCEPT !.night = night]

\* a variant of the insert without the unique constraint
insert_frame_unchecked(frs, row) == [ok |-> TRUE, frames |-> Append(frs, row)]

\* insert with the unique constraint on original_filename: [ok, frames]
insert_frame(frs, row) ==
  IF row.original_filename \in db_files(frs)
  THEN [ok |-> FALSE, frames |-> frs]
  ELSE [ok |-> TRUE, frames |-> Append(frs, row)]

\* the share of worker w of n workers: every n-th file from the w-th
partition(file_paths, w, n) ==
  LET mine == {i \in 1..Len(file_paths) : (i - 1) % n = w - 1}
      idx == sorted(mine)
  IN  [k \in 1..Len(idx) |-> file_paths[idx[k]]]

fresh_worker(todo) ==
  [todo |-> todo, looked |-> None, imported |-> 0, existing |-> 0, failed |-> 0, errors |-> {},
   conflicts |-> 0]

\* the workers of one import_files call
import_workers(file_paths, parallel, max_workers) ==
  IF parallel
  THEN [w \in 1..max_workers |-> fresh_worker(partition(file_paths, w, max_workers))]
  ELSE [w \in 1..1 |-> fresh_worker(file_paths)]

RECURSIVE sum_of(_, _, _)
sum_of(ws, field, n) == IF n = 0 THEN 0 ELSE ws[n][field] + sum_of(ws, field, n - 1)

\* a variant of the merge that keeps the first worker's counters only
merged_results_first(ws, total) ==
  [imported |-> ws[1].imported, existing |-> ws[1].existing, failed |-> ws[1].failed,
   total |-> total, errors |-> ws[1].errors, conflicts |-> ws[1].conflicts]

\* the ImportResult: the workers' counters merged
merged_results(ws, total) ==
  [imported |-> sum_of(ws, "imported", Len(ws)),
   existing |-> sum_of(ws, "existing", Len(ws)),
   failed |-> sum_of(ws, "failed", Len(ws)),
   total |-> total,
   errors |-> UNION {ws[w].errors : w \in 1..Len(ws)},
   conflicts |-> sum_of(ws, "conflicts", Len(ws))]

(***************************************************************************)
(* enhanced_ingest                                                         *)
(***************************************************************************)
\* a variant of Step 1 that cleans up whether requested or not
cleanup_step_always(o) ==
  cleanup_existing_data(o.date_str, TRUE, o.response)

\* Step 1: cleanup when requested; ok = FALSE stops the run
cleanup_step(o) ==
  IF o.cleanup THEN cleanup_existing_data(o.date_str, o.auto_confirm_cleanup, o.response)
  ELSE [ok |-> TRUE, frames |-> frames, targets |-> targets]

\* Step 3: the files left after the filter and the limit, handed to the pre-pass and the import
import_batch(o) ==
  LET all_files == discover_fits_files(o.date_str)
      filtered_files == IF o.exclude_focus \/ o.exclude_test
                        THEN filter_unwanted_files(all_files, o.exclude_focus, o.exclude_test)
                        ELSE all_files
  IN  IF o.limit # 0 /\ o.limit < Len(filtered_files)
      THEN SubSeq(filtered_files, 1, o.limit)
      ELSE filtered_files

\* the processing mode: forced, or switched on for a large batch
import_parallel(o, filtered_files) ==
  o.parallel \/ Len(filtered_files) >= AUTO_PARALLEL_FILES

\* Step 6: the post-pass runs when targets are wanted and something was imported, or in debug mode
runs_post_pass(o, results) == o.create_targets /\ (results.imported > 0 \/ o.debug)

NoResults == [imported |-> 0, existing |-> 0, failed |-> 0, total |-> 0, errors |-> {}, conflicts |-> 0]

NoLinks == [linked_targets |-> 0, linked_tiles |-> 0, coordinates_updated |-> 0]

\* a process between runs, with the options of its command line
IdleProc(o) ==
  [pc |-> "idle",
   opts |-> [o EXCEPT !.cleanup = FALSE, !.auto_confirm_cleanup = FALSE, !.response = ""],
   all_files |-> <<>>, files |-> <<>>, workers |-> <<>>, frames0 |-> <<>>, repeat |-> FALSE,
   created |-> {}]

\* the summary of a run that has not happened
NoRun ==
  [outcome |-> "none", cleanup |-> FALSE, all_files |-> <<>>, files |-> <<>>, names0 |-> {},
   frames0 |-> <<>>, frames1 |-> <<>>, results |-> NoResults, repeat |-> FALSE, created |-> {},
   post_ran |-> FALSE, post |-> NoLinks, pass_frames |-> <<>>, targets0 |-> {}, targets1 |-> {},
   tiles0 |-> {}]

\* the summary of a run that ended
Ended(outcome, o, all_files, files, frames0, frames1, results) ==
  [NoRun EXCEPT !.outcome = outcome, !.cleanup = o.cleanup, !.all_files = all_files,
                !.files = files, !.names0 = db_files(frames0), !.frames0 = frames0,
                !.frames1 = frames1, !.results = results]

\* a variant of Step 2 that leaves the requested Night as the only one
replace_for_date(nts, target_date) == {target_date}

\* Step 2, Night.get_or_create_for_date: the Night of the date, created when it is not there
get_or_create_for_date(nts, target_date) == nts \cup {target_date}

\* enhanced_ingest up to the import: cleanup, Night, discovery, filter, limit, target pre-pass
StartIngest(p, cleanup, auto_confirm_cleanup, response) ==
  /\ proc[p].pc = "idle"
  /\ LET o == [proc[p].opts EXCEPT !.cleanup = cleanup,
                                   !.auto_confirm_cleanup = auto_confirm_cleanup,
                                   !.response = response]
         cl == cleanup_step(o)
         all_files == discover_fits_files(o.date_str)
         filtered_files == import_batch(o)
         parallel == import_parallel(o, filtered_files)
         pre == IF o.create_targets THEN pre_process_targets(cl.targets, filtered_files)
                ELSE [raised |-> FALSE, targets |-> cl.targets]
     IN  IF ~cl.ok
         THEN /\ hist' = [hist EXCEPT ![p] = Ended("cancelled", o, <<>>, <<>>, frames, frames,
                                                    NoResults)]
              /\ UNCHANGED <<frames, targets, nights, proc>>
         ELSE /\ nights' = get_or_create_for_date(nights, o.date_str)
              /\ frames' = cl.frames
              /\ IF Len(all_files) = 0
                 THEN /\ hist' = [hist EXCEPT ![p] = Ended("no_files", o, all_files, <<>>,
                                                            cl.frames, cl.frames, NoResults)]
                      /\ targets' = cl.targets
                      /\ UNCHANGED proc
                 ELSE IF pre.raised
                 THEN /\ hist' = [hist EXCEPT ![p] = Ended("raised", o, all_files,
                                                            filtered_files, cl.frames, cl.frames,
                                                            NoResults)]
                      /\ targets' = cl.targets
                      /\ UNCHANGED proc
                 ELSE /\ proc' = [proc EXCEPT ![p] =
                                    [pc |-> "import",
                                     opts |-> [o EXCEPT !.auto_confirm_cleanup = FALSE,
                                                        !.response = ""],
                                     all_files |-> all_files,
                                     files |-> filtered_files,
                                     workers |-> import_workers(filtered_files, parallel,
                                                                o.max_workers),
                                     frames0 |-> cl.frames,
                                     repeat |-> /\ hist[p].outcome = "completed"
                                                /\ hist[p].files = filtered_files
                                                /\ hist[p].frames1 = frames
                                                /\ ~o.cleanup,
                                     created |-> {t.name : t \in pre.targets \ cl.targets}]]
                      /\ targets' = pre.targets
                      /\ UNCHANGED hist
  /\ UNCHANGED <<fs, tiles, report>>

\* import_files, a worker's first step for its next file: is the dedup key in the store?
ImportLookup(p, w) ==
  /\ proc[p].pc = "import"
  /\ w \in DOMAIN proc[p].workers
  /\ Len(proc[p].workers[w].todo) > 0
  /\ proc[p].workers[w].looked = None
  /\ proc' = [proc EXCEPT ![p].workers[w].looked =
                Some(basename(Head(proc[p].workers[w].todo)) \in db_files(frames))]
  /\ UNCHANGED <<fs, frames, targets, tiles, nights, hist, report>>

\* import_files, the worker's second step: skip, report the failure, or insert
ImportFile(p, w) ==
  /\ proc[p].pc = "import"
  /\ w \in DOMAIN proc[p].workers
  /\ proc[p].workers[w].looked # None
  /\ LET acc == proc[p].workers[w]
         f == Head(acc.todo)
         done == [acc EXCEPT !.todo = Tail(acc.todo), !.looked = None]
         ins == insert_frame(frames, new_frame(f, proc[p].opts.date_str))
     IN  IF the(acc.looked)
         THEN /\ proc' = [proc EXCEPT ![p].workers[w] = [done EXCEPT !.existing = @ + 1]]
              /\ UNCHANGED frames
         ELSE IF ~Analyzed[f].ok
         THEN /\ proc' = [proc EXCEPT ![p].workers[w] =
                            [done EXCEPT !.failed = @ + 1, !.errors = @ \cup {basename(f)}]]
              /\ UNCHANGED frames
         ELSE IF ins.ok
         THEN /\ proc' = [proc EXCEPT ![p].workers[w] = [done EXCEPT !.imported = @ + 1]]
              /\ frames' = ins.frames
         ELSE /\ proc' = [proc EXCEPT ![p].workers[w] =
                            [done EXCEPT !.existing = @ + 1, !.conflicts = @ + 1]]
              /\ UNCHANGED frames
  /\ UNCHANGED <<fs, targets, tiles, nights, hist, report>>

\* enhanced_ingest after the import: the merged result, the post-pass, the report
FinishImport(p) ==
  /\ proc[p].pc = "import"
  /\ \A w \in DOMAIN proc[p].workers : Len(proc[p].workers[w].todo) = 0
  /\ LET o == proc[p].opts
         results == merged_results(proc[p].workers, Len(proc[p].files))
         post_ran == runs_post_pass(o, results)
         post == IF post_ran
                 THEN post_process_targets(frames, targets, tiles, o.date_str, o.debug)
                 ELSE [frames |-> frames, targets |-> targets, linked_targets |-> 0,
                       linked_tiles |-> 0, coordinates_updated |-> 0]
     IN  /\ frames' = post.frames
         /\ targets' = post.targets
         /\ hist' = [hist EXCEPT ![p] =
                       [Ended("completed", o, proc[p].all_files, proc[p].files,
                              proc[p].frames0, post.frames, results)
                          EXCEPT !.repeat = proc[p].repeat,
                                 !.created = proc[p].created,
                                 !.post_ran = post_ran,
                                 !.post = [linked_targets |-> post.linked_targets,
                                           linked_tiles |-> post.linked_tiles,
                                           coordinates_updated |-> post.coordinates_updated],
                                 !.pass_frames = IF post_ran THEN frames ELSE <<>>,
                                 !.targets0 = IF post_ran THEN targets ELSE {},
                                 !.targets1 = IF post_ran THEN post.targets ELSE {},
                                 !.tiles0 = IF post_ran THEN tiles ELSE {}]]
         /\ proc' = [proc EXCEPT ![p] = IdleProc(o)]
  /\ UNCHANGED <<fs, tiles, nights, report>>

(***************************************************************************)
(* The ingest of one date by one process                                   *)
(***************************************************************************)
IngestDate == <<"2","0","2","5","-","0","3","-","0","1">>

\* the catalog files in the folders of that date
IngestFiles == {f \in FileIds : startswith(Catalog[f].folder, IngestDate)}

Disks(files) == {d \in SUBSET files : Cardinality(d) <= MaxDisk}

\* the command lines: --date, --parallel --workers, --limit, --debug, --no-targets, --include-focus, --include-test
Options(parallels, limits, debugs, create, toggles) ==
  {[date_str |-> IngestDate, cleanup |-> FALSE, auto_confirm_cleanup |-> FALSE, response |-> "",
    parallel |-> par[1], max_workers |-> par[2], limit |-> limit, debug |-> debug,
    create_targets |-> create_targets, exclude_focus |-> ef, exclude_test |-> et] :
     par \in parallels, limit \in limits, debug \in debugs, create_targets \in create,
     ef \in toggles, et \in toggles}

\* sequential, or --parallel with each worker count
Modes == {<<FALSE, 1>>} \cup {<<TRUE, n>> : n \in WorkerCounts}

NoReport ==
  [kind |-> "none", filter |-> [start_date |-> {}, end_date |-> {}, specific_dates |-> {}],
   summary_only |-> FALSE, analysed |-> {}, db_files |-> {}, date_mismatches |-> {},
   missing_files |-> {}, buckets |-> <<>>, patterns |-> <<>>]

EmptyStore ==
  /\ frames = <<>>
  /\ targets = {}
  /\ tiles = {}
  /\ nights = {}
  /\ hist = [p \in Procs |-> NoRun]
  /\ report = NoReport

Init ==
  /\ EmptyStore
  /\ \E d \in Disks(IngestFiles) : fs = [files |-> d, root_ok |-> TRUE, denied |-> {}]
  /\ \E o \in Options(Modes, Limits, {FALSE}, {TRUE}, BOOLEAN) :
       proc = [p \in Procs |-> IdleProc(o)]

Responses == {"YES", "no"}

Ingest(p) ==
  \/ \E cleanup \in BOOLEAN, auto_confirm_cleanup \in BOOLEAN, response \in Responses :
       StartIngest(p, cleanup, auto_confirm_cleanup, response)
  \/ \E w \in DOMAIN proc[p].workers : ImportLookup(p, w)
  \/ \E w \in DOMAIN proc[p].workers : ImportFile(p, w)
  \/ FinishImport(p)

Next == Ingest(1)

Spec == Init /\ [][Next]_vars

(***************************************************************************)
(* Properties of the ingest                                                *)
(***************************************************************************)
names(file_paths) == {basename(file_paths[i]) : i \in 1..Len(file_paths)}

distinct_names(file_paths) == Cardinality(names(file_paths)) = Len(file_paths)

classifiable(file_paths) == \A i \in 1..Len(file_paths) : Analyzed[file_paths[i]].ok

\* the rows without their Target and Tile links
unlinked(frs) == [i \in 1..Len(frs) |-> [frs[i] EXCEPT !.target = None, !.tile = None]]

\* the two consequences of the idempotent import for the last run of process 1
idempotent(h) ==
  /\ names(h.files) \cap h.names0 = {} =>
       h.results.imported = Len(h.files) /\ h.results.existing = 0
  /\ h.repeat =>
       /\ h.results.imported = 0 /\ h.results.existing = Len(h.files)
       /\ unlinked(h.frames1) = unlinked(h.frames0)
       /\ ~h.post_ran => h.frames1 = h.frames0

\* C1 (amended): a completed import of N distinct filenames that each match a grammar and
\* of which none is in the frame store reports imported = N and existing = 0; a completed
\* import of the same list again, with no cleanup in between, reports imported = 0 and
\* existing = N and leaves the persisted frame records as they were.
IdempotentImport ==
  hist[1].outcome = "completed" /\ distinct_names(hist[1].files) /\ classifiable(hist[1].files)
    => idempotent(hist[1])

\* C1 witness: a second import of two classifiable files found both in the store
IdempotentImportSeen ==
  /\ hist[1].outcome = "completed" /\ hist[1].repeat
  /\ Len(hist[1].files) = 2 /\ distinct_names(hist[1].files) /\ classifiable(hist[1].files)
  /\ hist[1].results.existing = 2

\* C1 as stated: the same for every list of N distinct filenames, classifiable or not
IdempotentImportAnyList ==
  hist[1].outcome = "completed" /\ distinct_names(hist[1].files) => idempotent(hist[1])

\* C3: whatever the exclude_focus / exclude_test toggles, every discovered file that matches
\* no grammar has an entry in the errors of the import result and is counted in failed
\* (runs without --limit, which cuts the batch on purpose).
UnparseableReported ==
  LET h == hist[1]
      bad == {i \in 1..Len(h.all_files) : ~Analyzed[h.all_files[i]].ok}
  IN  h.outcome = "completed" /\ proc[1].opts.limit = 0 =>
        /\ \A i \in bad : basename(h.all_files[i]) \in h.results.errors
        /\ h.results.failed >= Cardinality(bad)

\* with both toggles off nothing is filtered and the unparseable files do reach the result
UnparseableReportedUnfiltered ==
  ~proc[1].opts.exclude_focus /\ ~proc[1].opts.exclude_test => UnparseableReported

\* the counters of a sequential import of file_paths into a store holding the names seen
RECURSIVE sequential_counts(_, _, _)
sequential_counts(file_paths, seen, acc) ==
  IF Len(file_paths) = 0 THEN acc
  ELSE LET f == Head(file_paths)
       IN  IF basename(f) \in seen
           THEN sequential_counts(Tail(file_paths), seen, [acc EXCEPT !.existing = @ + 1])
           ELSE IF ~Analyzed[f].ok
           THEN sequential_counts(Tail(file_paths), seen, [acc EXCEPT !.failed = @ + 1])
           ELSE sequential_counts(Tail(file_paths), seen \cup {basename(f)},
                                  [acc EXCEPT !.imported = @ + 1])

counters(r) == [imported |-> r.imported, existing |-> r.existing, failed |-> r.failed,
                total |-> r.total]

\* C7: the counters imported, existing, failed and total of a completed run, parallel with
\* any worker count or not, are those of the sequential import of the batch that
\* parallel = false hands over, into the store the import started from.
ParallelEqualsSequential ==
  LET h == hist[1]
      batch == import_batch([proc[1].opts EXCEPT !.parallel = FALSE])
  IN  h.outcome = "completed" =>
        counters(h.results) =
          sequential_counts(batch, h.names0,
                            [imported |-> 0, existing |-> 0, failed |-> 0, total |-> Len(batch)])

\* C7 witness: a parallel run in which two workers raced for the same filename
ParallelRaceSeen ==
  /\ hist[1].outcome = "completed"
  /\ proc[1].opts.parallel /\ proc[1].opts.max_workers = 2
  /\ hist[1].results.conflicts > 0

(***************************************************************************)
(* Two ingest processes on the same date                                   *)
(***************************************************************************)
InitRace ==
  /\ EmptyStore
  /\ \E d \in Disks(IngestFiles) : fs = [files |-> d, root_ok |-> TRUE, denied |-> {}]
  /\ \E o1 \in Options({<<FALSE, 1>>}, {0}, {FALSE}, {FALSE}, {TRUE}),
        o2 \in Options({<<FALSE, 1>>}, Limits, {FALSE}, {FALSE}, BOOLEAN) :
       proc = [p \in Procs |-> IF p = 1 THEN IdleProc(o1) ELSE IdleProc(o2)]

\* a process that runs its command line, without --cleanup, once
Import(p) ==
  \/ hist[p].outcome = "none" /\ StartIngest(p, FALSE, FALSE, "no")
  \/ \E w \in DOMAIN proc[p].workers : ImportLookup(p, w)
  \/ \E w \in DOMAIN proc[p].workers : ImportFile(p, w)
  \/ FinishImport(p)

NextRace == Import(1) \/ Import(2)

SpecRace == InitRace /\ [][NextRace]_vars

\* C2: in every reachable state, whatever the interleaving of two ingest processes with
\* overlapping file lists, no original filename has more than one persisted frame record
\* over the four frame tables.
UniqueFilenames ==
  \A i, j \in 1..Len(frames) :
    i # j => frames[i].original_filename # frames[j].original_filename

\* C2 witness: a sequential process lost the insert of a filename to the other process
InsertConflictSeen ==
  \E p \in Procs : hist[p].outcome = "completed" /\ hist[p].results.conflicts > 0

(***************************************************************************)
(* CHECK_missing_files.py: the four entry points.  File lists are sets of  *)
(* paths here: the code only counts them, tests membership and groups.     *)
(***************************************************************************)
\* the order of the characters that dates are written with, as Python compares strings
CharOrder == <<"-","0","1","2","3","4","5","6","7","8","9">>

RECURSIVE str_lt(_, _)
str_lt(a, b) ==
  IF Len(b) = 0 THEN FALSE
  ELSE IF Len(a) = 0 THEN TRUE
  ELSE IF Head(a) = Head(b) THEN str_lt(Tail(a), Tail(b))
  ELSE IndexIn(Head(a), CharOrder) < IndexIn(Head(b), CharOrder)

\* per catalog file: is_science_file and get_filename_pattern of its name, and the key of
\* its bucket in date_missing
date_key(filename) ==
  IF filename_date(filename) # None THEN the(filename_date(filename)) ELSE <<"S","P","E","C","I","A","L">>

Named ==
  [f \in FileIds |-> [science |-> is_science_file(basename(f)),
                      pattern |-> get_filename_pattern(basename(f)),
                      date_key |-> date_key(basename(f)),
                      fits |-> endswith(basename(f), <<".","f","i","t","s">>),
                      folder_key |-> Catalog[f].unit \o <<"/">> \o Catalog[f].folder]]

file_named(filename) == CHOOSE f \in FileIds : basename(f) = filename

\* glob.glob('/lyman/data1/obsdata/7DT*/*/*.fits')
all_fits_files ==
  {f \in fs.files : /\ fs.root_ok
                    /\ Catalog[f].unit \notin fs.denied
                    /\ startswith(Catalog[f].unit, <<"7","D","T">>)
                    /\ Named[f].fits}

NoFilter == [start_date |-> None, end_date |-> None, specific_dates |-> {}]

\* get_files_by_date_range: filtered_files
get_files_by_date_range(flt) ==
  IF flt.start_date = None /\ flt.end_date = None /\ flt.specific_dates = {}
  THEN all_fits_files
  ELSE {f \in all_fits_files :
          LET filter_date == IF DateInfo[f].filename_date # None
                             THEN DateInfo[f].filename_date ELSE DateInfo[f].folder_date
          IN  /\ filter_date # None
              /\ IF flt.specific_dates # {} THEN the(filter_date) \in flt.specific_dates
                 ELSE /\ ~(flt.start_date # None /\ str_lt(the(filter_date), the(flt.start_date)))
                      /\ ~(flt.end_date # None /\ str_lt(the(flt.end_date), the(filter_date)))}

\* filename date and folder date both exist and differ
is_mismatch(f) ==
  /\ DateInfo[f].filename_date # None /\ DateInfo[f].folder_date # None
  /\ DateInfo[f].filename_date # DateInfo[f].folder_date

date_mismatches(file_paths) == {DateInfo[f] : f \in {g \in file_paths : is_mismatch(g)}}

science_files(file_paths) == {basename(f) : f \in {g \in file_paths : Named[g].science}}

\* a variant of the grouping by date that also files a name under its folder date
date_missing_both(missing_files) ==
  LET keys(n) == {Named[file_named(n)].date_key} \cup DateInfo[file_named(n)].folder_date
  IN  [d \in UNION {keys(n) : n \in missing_files} |-> {n \in missing_files : d \in keys(n)}]

\* date_missing: the missing filenames by filename date, 'SPECIAL' without one
date_missing(missing_files) ==
  [d \in {Named[file_named(n)].date_key : n \in missing_files} |->
     {n \in missing_files : Named[file_named(n)].date_key = d}]

\* patterns: the filenames of one bucket by fingerprint
patterns(files) ==
  [p \in {Named[file_named(n)].pattern : n \in files} |->
     {n \in files : Named[file_named(n)].pattern = p}]

NoGroups == [d \in {} |-> {}]

\* what analyze_and_save_missing_files prints and, unless summary_only, writes to the log
missing_files_report(flt, summary_only) ==
  LET filtered_fits_files == get_files_by_date_range(flt)
      missing_files == science_files(filtered_fits_files) \ db_files(frames)
      buckets == date_missing(missing_files)
  IN  [kind |-> "by_filename", filter |-> flt, summary_only |-> summary_only,
       analysed |-> filtered_fits_files, db_files |-> db_files(frames),
       date_mismatches |-> date_mismatches(filtered_fits_files),
       missing_files |-> missing_files,
       buckets |-> buckets,
       patterns |-> IF summary_only THEN NoGroups
                    ELSE [d \in DOMAIN buckets |-> patterns(buckets[d])]]

analyze_and_save_missing_files(flt, summary_only) ==
  /\ report' = missing_files_report(flt, summary_only)
  /\ UNCHANGED <<fs, frames, targets, tiles, nights, proc, hist>>

\* the date test of the folder-based entry points: the three options all apply
folder_selected(fdate, flt) ==
  /\ ~(flt.specific_dates # {} /\ fdate \notin flt.specific_dates)
  /\ ~(flt.start_date # None /\ str_lt(fdate, the(flt.start_date)))
  /\ ~(flt.end_date # None /\ str_lt(the(flt.end_date), fdate))

\* the files of the folders that analyze_by_folders and list_missing_folders_only visit
folder_files(flt) ==
  {f \in all_fits_files : /\ DateInfo[f].folder_date # None
                          /\ folder_selected(the(DateInfo[f].folder_date), flt)}

\* folder_analysis[folder_key]['missing_list']
missing_list(file_paths, folder_key) ==
  {basename(f) : f \in {g \in file_paths : /\ Named[g].folder_key = folder_key
                                           /\ Named[g].science
                                           /\ basename(g) \notin db_files(frames)}}

\* a variant of analyze_by_folders that registers the missing files it finds
analyze_by_folders_registering(flt, summary_only) ==
  /\ report' = [NoReport EXCEPT !.kind = "by_folders"]
  /\ frames' = frames \o [i \in 1..Cardinality(folder_files(flt)) |->
                            new_frame(sorted(folder_files(flt))[i], IngestDate)]
  /\ UNCHANGED <<fs, targets, tiles, nights, proc, hist>>

\* what analyze_by_folders prints and, unless summary_only, writes to the log
analyze_by_folders(flt, summary_only) ==
  /\ LET file_paths == folder_files(flt)
         buckets == [k \in {Named[f].folder_key : f \in file_paths} |->
                       missing_list(file_paths, k)]
     IN  report' = [kind |-> "by_folders", filter |-> flt, summary_only |-> summary_only,
                    analysed |-> file_paths, db_files |-> db_files(frames),
                    date_mismatches |-> {},
                    missing_files |-> UNION {buckets[k] : k \in DOMAIN buckets},
                    buckets |-> buckets,
                    patterns |-> IF summary_only THEN NoGroups
                                 ELSE [k \in {j \in DOMAIN buckets : buckets[j] # {}} |->
                                         patterns(buckets[k])]]
  /\ UNCHANGED <<fs, frames, targets, tiles, nights, proc, hist>>

\* the folders with missing files, and nothing else
list_missing_folders_only(flt) ==
  /\ LET file_paths == folder_files(flt)
         missing_folders == {k \in {Named[f].folder_key : f \in file_paths} :
                               missing_list(file_paths, k) # {}}
         buckets == [k \in missing_folders |-> missing_list(file_paths, k)]
     IN  report' = [kind |-> "missing_folders", filter |-> flt, summary_only |-> TRUE,
                    analysed |-> file_paths, db_files |-> db_files(frames),
                    date_mismatches |-> {},
                    missing_files |-> UNION {buckets[k] : k \in DOMAIN buckets},
                    buckets |-> buckets,
                    patterns |-> NoGroups]
  /\ UNCHANGED <<fs, frames, targets, tiles, nights, proc, hist>>

\* the mismatches of all files, whatever the date
analyze_date_mismatches ==
  /\ report' = [kind |-> "date_mismatches", filter |-> NoFilter, summary_only |-> FALSE,
                analysed |-> all_fits_files, db_files |-> {},
                date_mismatches |-> date_mismatches(all_fits_files),
                missing_files |-> {}, buckets |-> NoGroups, patterns |-> NoGroups]
  /\ UNCHANGED <<fs, frames, targets, tiles, nights, proc, hist>>

(***************************************************************************)
(* Reconciliation runs around one ingest                                   *)
(***************************************************************************)
\* --dates, --start-date, --end-date as tried here
Filters ==
  {NoFilter,
   [NoFilter EXCEPT !.specific_dates = {<<"2","0","2","5","-","0","2","-","2","8">>}],
   [NoFilter EXCEPT !.start_date = Some(<<"2","0","2","5","-","0","3","-","0","1">>)]}

\* the catalog files the reconciliation is run over: a misfiled science file, a bias
\* frame, a science file stored under two units, a focus file, a name without a date
\* and a name of the old format
ReconFiles == {1, 2, 3, 6, 7, 8, 10}

InitRecon ==
  /\ EmptyStore
  /\ \E d \in Disks(ReconFiles) : fs = [files |-> d, root_ok |-> TRUE, denied |-> {}]
  /\ \E o \in Options({<<FALSE, 1>>}, {0}, {FALSE}, {FALSE}, {TRUE}) :
       proc = [p \in Procs |-> IdleProc(o)]

Reconcile ==
  \/ \E flt \in Filters, summary_only \in BOOLEAN : analyze_and_save_missing_files(flt, summary_only)
  \/ \E flt \in Filters, summary_only \in BOOLEAN : analyze_by_folders(flt, summary_only)
  \/ \E flt \in Filters : list_missing_folders_only(flt)
  \/ analyze_date_mismatches

NextRecon == Import(1) \/ Reconcile

SpecRecon == InitRecon /\ [][NextRecon]_vars

(***************************************************************************)
(* Properties of the reconciliation                                        *)
(***************************************************************************)
\* the buckets of the report that hold the filename n
buckets_of(n) == {d \in DOMAIN report.buckets : n \in report.buckets[d]}

\* the fingerprint groups of bucket d that hold the filename n
groups_of(d, n) == {p \in DOMAIN report.patterns[d] : n \in report.patterns[d][p]}

\* missing is the science candidates of the analysed files minus the registered names, and
\* each missing name is in exactly one date bucket
missing_bucketed ==
  /\ report.analysed = get_files_by_date_range(report.filter)
  /\ report.missing_files =
       {basename(f) : f \in {g \in report.analysed : is_science_file(basename(g))}}
         \ report.db_files
  /\ \A n \in report.missing_files : Cardinality(buckets_of(n)) = 1

\* each missing name is in exactly one fingerprint group of its bucket
missing_grouped ==
  \A n \in report.missing_files :
    \A d \in buckets_of(n) : d \in DOMAIN report.patterns /\ Cardinality(groups_of(d, n)) = 1

\* C4 (amended): the filename-based analysis computes missing = {f in S : is_science_file(f)}
\* minus R over the files S that pass its date filter (all scanned files without one) and
\* puts every element of missing in exactly one date bucket (its filename date, or SPECIAL);
\* a run that writes the detailed log puts it in exactly one fingerprint group there.
ReconciliationComplete ==
  report.kind = "by_filename" =>
    missing_bucketed /\ (~report.summary_only => missing_grouped)

\* C4 witness: a detailed run found a registered and a missing science file
ReconciliationGapSeen ==
  /\ report.kind = "by_filename" /\ ~report.summary_only
  /\ report.missing_files # {}
  /\ report.db_files \cap science_files(report.analysed) # {}

\* C4 as stated: every run of the filename-based analysis buckets and groups
ReconciliationCompleteAnyRun ==
  report.kind = "by_filename" => missing_bucketed /\ missing_grouped

\* C5: every analysed file whose filename date and folder date both exist and differ has a
\* mismatch entry (folder date -> filename date) in the report, in particular when the
\* report holds it in a bucket of missing files.
MismatchFlagged ==
  report.kind \in {"by_filename", "by_folders", "missing_folders"} =>
    \A f \in report.analysed :
      is_mismatch(f) =>
        \E m \in report.date_mismatches :
          /\ m.filename = basename(f)
          /\ m.folder_date = DateInfo[f].folder_date
          /\ m.filename_date = DateInfo[f].filename_date

\* the filename-based analysis does list the mismatches next to its buckets
MismatchFlaggedByFilename == report.kind = "by_filename" => MismatchFlagged

\* a filename-based report holds a misfiled file both as a mismatch and in a bucket
MismatchBucketedSeen ==
  /\ report.kind = "by_filename"
  /\ \E f \in report.analysed : is_mismatch(f) /\ buckets_of(basename(f)) # {}

\* C6: a step of any reconciliation entry point (filename-based analysis, folder-based
\* analysis, missing-folder listing, date-mismatch analysis) leaves the frame records, the
\* set of rows and their fields, as they were.
ReconciliationReadOnly == [][Reconcile => frames' = frames]_vars

\* C6 witness: a reconciliation reported gaps against a store that holds frames
ReconciledStoreSeen ==
  /\ report.kind \in {"by_filename", "by_folders", "missing_folders", "date_mismatches"}
  /\ Len(frames) > 0
  /\ report.missing_files # {}

(***************************************************************************)
(* Targets and tiles: ingest runs, the Target admin and load_tiles         *)
(***************************************************************************)
\* TargetAdmin: a Target added through the admin site, with the name and coordinates typed in
AddTarget(name, ra, dec) ==
  /\ \A t \in targets : t.name # name
  /\ targets' = targets \cup {[name |-> name, ra |-> ra, dec |-> dec, target_type |-> "EXSCI"]}
  /\ UNCHANGED <<fs, frames, tiles, nights, proc, hist, report>>

\* the ids in the tile file
TileIds == {TileIdOf(<<"T","2","5","3","4","4">>)}

\* load_tiles: Tile.load_from_file
LoadTiles ==
  /\ tiles # TileIds
  /\ tiles' = TileIds
  /\ UNCHANGED <<fs, frames, targets, nights, proc, hist, report>>

\* the names and coordinates typed into the admin form
AdminNames == {<<"T","2","5","3","4","4">>, <<"M","5","1">>}

AdminCoordinates == {<<0, 0>>, <<150, 2>>}

\* the catalog files of the date that are stored as science frames with an object name
TargetFiles ==
  {f \in IngestFiles : /\ Analyzed[f].ok
                       /\ Rows[f].frame_type = <<"S","C","I","E","N","C","E">>
                       /\ Len(Rows[f].object_name) > 0
                       /\ Exclusion[f][TRUE][TRUE] = ""}

InitTargets ==
  /\ EmptyStore
  /\ \E d \in Disks(TargetFiles) : fs = [files |-> d, root_ok |-> TRUE, denied |-> {}]
  /\ \E o \in Options({<<FALSE, 1>>}, {0}, BOOLEAN, {TRUE}, {TRUE}) :
       proc = [p \in Procs |-> IdleProc(o)]

\* a process that runs its command line, without --cleanup, again and again
Reimport(p) ==
  \/ StartIngest(p, FALSE, FALSE, "no")
  \/ \E w \in DOMAIN proc[p].workers : ImportLookup(p, w)
  \/ \E w \in DOMAIN proc[p].workers : ImportFile(p, w)
  \/ FinishImport(p)

NextTargets ==
  \/ Reimport(1)
  \/ \E name \in AdminNames, c \in AdminCoordinates : AddTarget(name, c[1], c[2])
  \/ LoadTiles

SpecTargets == InitTargets /\ [][NextTargets]_vars

(***************************************************************************)
(* Properties of the target and tile linking                               *)
(***************************************************************************)
\* the rows the post-pass of run h resolved to the Target called name, in processing order
referencing(h, name) ==
  SelectSeq(science_frames(h.pass_frames, proc[1].opts.date_str, proc[1].opts.debug),
            LAMBDA i : /\ h.pass_frames[i].object_name = name
                       /\ ~(IsTileName(name) /\ TileIdOf(name) \in h.tiles0))

\* the Target called name holds the coordinates of row i after the post-pass of run h
backfilled_from(h, name, i) ==
  \E t \in h.targets1 : /\ t.name = name
                        /\ t.ra = the(h.pass_frames[i].object_ra)
                        /\ t.dec = the(h.pass_frames[i].object_dec)

\* C8: after a post-pass, a Target that held the placeholder coordinates holds those of the
\* first frame in processing order, among the frames referencing it, that carries non-null
\* coordinates; no later frame has overwritten them.
FirstWriterWins ==
  LET h == hist[1]
  IN  h.outcome = "completed" /\ h.post_ran =>
        \A t \in h.targets0 :
          LET with == SelectSeq(referencing(h, t.name),
                                LAMBDA i : /\ h.pass_frames[i].object_ra # None
                                           /\ h.pass_frames[i].object_dec # None)
          IN  t.ra = 0 /\ t.dec = 0 /\ Len(with) > 0 => backfilled_from(h, t.name, with[1])

\* what the code does: the first frame whose coordinates are both non-null and non-zero wins
FirstNonZeroWriterWins ==
  LET h == hist[1]
  IN  h.outcome = "completed" /\ h.post_ran =>
        \A t \in h.targets0 :
          LET with == SelectSeq(referencing(h, t.name),
                                LAMBDA i : /\ truthy(h.pass_frames[i].object_ra)
                                           /\ truthy(h.pass_frames[i].object_dec))
          IN  t.ra = 0 /\ t.dec = 0 /\ Len(with) > 0 => backfilled_from(h, t.name, with[1])

\* a post-pass went over two frames with coordinates that reference one placeholder Target
BackfillRaceSeen ==
  /\ hist[1].outcome = "completed" /\ hist[1].post_ran
  /\ \E t \in hist[1].targets0 :
       /\ t.ra = 0 /\ t.dec = 0
       /\ Cardinality({i \in 1..Len(hist[1].pass_frames) :
                         /\ hist[1].pass_frames[i].object_name = t.name
                         /\ truthy(hist[1].pass_frames[i].object_ra)
                         /\ truthy(hist[1].pass_frames[i].object_dec)}) >= 2

\* an object name of the form T<digits>
is_tile_reference(name) ==
  Len(name) > 1 /\ name[1] = "T" /\ isdigit(SubSeq(name, 2, Len(name)))

\* the pre-pass of the last run created no Target with a name of the form T<digits>
PrepassCreatesNoTileTarget == \A n \in hist[1].created : ~is_tile_reference(n)

\* C9: for every object name of the form T<digits> the pre-pass never creates a Target with
\* that name, and a frame with that name is never linked to a Target, and to a Tile only if
\* its id equals the digits.
TileExclusive ==
  /\ PrepassCreatesNoTileTarget
  /\ \A i \in 1..Len(frames) :
       is_tile_reference(frames[i].object_name) =>
         /\ frames[i].target = None
         /\ frames[i].tile # None => the(frames[i].tile) = TileIdOf(frames[i].object_name)

\* a frame named T<digits> was linked to the Tile of that id
TileLinkedSeen ==
  \E i \in 1..Len(frames) :
    /\ is_tile_reference(frames[i].object_name)
    /\ frames[i].tile = Some(TileIdOf(frames[i].object_name))

\* C10: in every reachable state, whatever the imports, Tile loads, Target creations and
\* post-pass runs in debug or non-debug mode, no science frame has both its Target link and
\* its Tile link set.
OneLink ==
  \A i \in 1..Len(frames) :
    frames[i].frame_type = <<"S","C","I","E","N","C","E">> => frames[i].target = None \/ frames[i].tile = None

\* without debug mode the post-pass only visits frames that have neither link
OneLinkWithoutDebug == ~proc[1].opts.debug => OneLink


\* the pre-pass and the post-pass run once more over the batch of the last run and the
\* store as it stands
second_passes ==
  LET pre == pre_process_targets(targets, hist[1].files)
  IN  [targets |-> pre.targets,
       post |-> post_process_targets(frames, pre.targets, tiles, proc[1].opts.date_str,
                                     proc[1].opts.debug)]

\* process 1 is between runs and the store is as the passes of its last run left it
passes_just_ran ==
  /\ hist[1].outcome = "completed" /\ hist[1].post_ran /\ proc[1].pc = "idle"
  /\ frames = hist[1].frames1 /\ targets = hist[1].targets1 /\ tiles = hist[1].tiles0

\* C11: running the target pre-pass and post-pass a second time over the same batch and
\* store creates no additional Target (Target names stay unique) and changes no frame's
\* Target or Tile link: the second post-pass links zero frames.
PassesIdempotent ==
  passes_just_ran =>
    LET again == second_passes
    IN  /\ again.targets = targets
        /\ \A t, u \in again.targets : t.name = u.name => t = u
        /\ again.post.linked_targets = 0 /\ again.post.linked_tiles = 0
        /\ \A i \in 1..Len(frames) : /\ again.post.frames[i].target = frames[i].target
                                     /\ again.post.frames[i].tile = frames[i].tile

\* C11 witness: the passes of a debug run created a Target and linked a frame to it, so the
\* second post-pass goes over a frame that is linked already
PassesRepeatedSeen ==
  /\ passes_just_ran /\ proc[1].opts.debug
  /\ hist[1].created # {} /\ hist[1].post.linked_targets > 0


(***************************************************************************)
(* Filenames through the ingest filter, the classifier and the             *)
(* reconciliation predicate                                                *)
(***************************************************************************)
\* the words a filename is built around: object names, the markers of the two predicates
\* in both cases, the names of the special files
Words ==
  {<<"M","5","1">>, <<"T","2","5","3","4","4">>, <<"L","T","T","1","0","2","0">>, <<"B","I","A","S">>, <<"b","i","a","s">>, <<"m","a","s","k","6","0">>, <<"F","O","C","U","S">>, <<"F","o","c","u","s">>,
   <<"a","u","t","o","f","o","c","u","s">>, <<"T","E","S","T">>, <<"t","e","s","t">>, <<"D","e","f","o","c","u","s","_","t","e","s","t">>, <<"M","A","S","T","E","R">>, <<"C","A","L","I","B">>, <<"c","a","l","i","b">>,
   <<"l","a","m","p">>, <<"t","w","i","l","i","g","h","t">>, <<"s","n","a","p","s","h","o","t">>, <<"c","o","r","s","u","b">>, <<"s","u","b","_">>, <<"a","f","_">>}

\* what stands before and after the word: nothing, the extension alone, the current
\* format, the current format behind the BAD_ flag, the old format with and without a
\* type token
Shapes ==
  {<< <<>>, <<>> >>,
   << <<>>, <<".","f","i","t","s">> >>,
   << <<"7","D","T","0","1","_","2","0","2","5","0","3","0","1","_","0","3","1","5","2","0","_">>, <<"_","r","_","1","x","1","_","1","0","0","s","_","0","0","0","2",".","f","i","t","s">> >>,
   << <<"B","A","D","_","7","D","T","0","1","_","2","0","2","5","0","3","0","1","_","0","3","1","5","2","0","_">>, <<"_","r","_","1","x","1","_","1","0","0","s","_","0","0","0","2",".","f","i","t","s">> >>,
   << <<"L","I","G","H","T","_">>, <<"_","2","0","2","3","-","1","0","-","1","2","_","0","3","-","0","1","-","1","4","_","r","_","6","0","s","_","0","0","2","1",".","f","i","t","s">> >>,
   << <<"L","T","T","1","0","2","0","_">>, <<"_","2","0","2","3","-","1","0","-","1","2","_","0","3","-","0","1","-","1","4","_","r","_","6","0","s","_","0","0","2","1",".","f","i","t","s">> >>}

Filenames == {sh[1] \o w \o sh[2] : sh \in Shapes, w \in Words}

\* one filename through filter_unwanted_files, FilenamePatternAnalyzer and is_science_file
examined(filename, exclude_focus, exclude_test) ==
  [kind |-> "filename", filename |-> filename,
   exclude_focus |-> exclude_focus, exclude_test |-> exclude_test,
   exclusion_reason |-> ExclusionReason(filename, exclude_focus, exclude_test),
   analyzer |-> FilenamePatternAnalyzer(filename),
   is_science_file |-> is_science_file(filename)]

\* the outcome for every filename under every setting of the toggles, computed once
Examined ==
  [filename \in Filenames |-> [exclude_focus \in BOOLEAN |-> [exclude_test \in BOOLEAN |->
     examined(filename, exclude_focus, exclude_test)]]]

ExamineFilename(filename, exclude_focus, exclude_test) ==
  /\ report' = Examined[filename][exclude_focus][exclude_test]
  /\ UNCHANGED <<fs, frames, targets, tiles, nights, proc, hist>>

InitNames ==
  /\ EmptyStore
  /\ fs = [files |-> {}, root_ok |-> TRUE, denied |-> {}]
  /\ \E o \in Options({<<FALSE, 1>>}, {0}, {FALSE}, {TRUE}, {TRUE}) :
       proc = [p \in Procs |-> IdleProc(o)]

NextNames ==
  \E filename \in Filenames, exclude_focus \in BOOLEAN, exclude_test \in BOOLEAN :
    ExamineFilename(filename, exclude_focus, exclude_test)

SpecNames == InitNames /\ [][NextNames]_vars

(***************************************************************************)
(* Properties of the predicates                                            *)
(***************************************************************************)
\* the exclusion rule as written down: a marker anywhere in the lower-cased name, one of
\* the special names, or the BAD_ flag in front
excluded_as_specified(filename) ==
  \/ \E marker \in {<<"f","o","c","u","s">>, <<"t","e","s","t">>, <<"m","a","s","t","e","r">>, <<"c","a","l","i","b">>, <<"l","a","m","p">>, <<"t","w","i","l","i","g","h","t">>, <<"s","n","a","p","s","h","o","t">>,
                    <<"c","o","r","s","u","b">>, <<"s","u","b","_">>, <<"a","u","t","o","f","o","c","u","s">>, <<"a","f","_">>, <<"d","e","f","o","c","u","s","_","t","e","s","t">>} :
       contains(lower(filename), marker)
  \/ lower(filename) \in {<<"b","i","a","s",".","f","i","t","s">>, <<"m","a","s","k","6","0",".","f","i","t","s">>, <<"s","n","a","p","s","h","o","t">>}
  \/ startswith(filename, <<"B","A","D","_">>)

\* C12: is_science_file(filename) is false exactly when the lower-cased filename contains
\* one of the markers, or equals bias.fits, mask60.fits or snapshot, or the filename starts
\* with BAD_; it is true for every other filename.
ScienceCandidateAsSpecified ==
  report.kind = "filename" =>
    (report.is_science_file <=> ~excluded_as_specified(report.filename))

\* what the code does: the same rule without the BAD_ flag
ScienceCandidateButBadFlag ==
  report.kind = "filename" /\ ~startswith(report.filename, <<"B","A","D","_">>) =>
    (report.is_science_file <=> ~excluded_as_specified(report.filename))

\* a filename with the BAD_ flag and no marker went through is_science_file
BadFlagSeen ==
  /\ report.kind = "filename" /\ startswith(report.filename, <<"B","A","D","_">>)
  /\ report.is_science_file


\* C13: with exclude_focus and exclude_test enabled, filter_unwanted_files excludes a
\* filename if and only if is_science_file returns False for it, so no file that ingest
\* excludes is reported as missing by reconciliation.
FilterIsSciencePredicate ==
  report.kind = "filename" /\ report.exclude_focus /\ report.exclude_test =>
    (report.exclusion_reason # "" <=> ~report.is_science_file)

\* a filename of the current format that the ingest filter keeps and that reconciliation
\* does not expect in the database
FilterDriftSeen ==
  /\ report.kind = "filename" /\ report.exclude_focus /\ report.exclude_test
  /\ report.analyzer.ok /\ report.exclusion_reason = "" /\ ~report.is_science_file

\* a filename that the ingest filter excludes and that reconciliation expects in the database
PhantomGapSeen ==
  /\ report.kind = "filename" /\ report.exclude_focus /\ report.exclude_test
  /\ report.exclusion_reason # "" /\ report.is_science_file

\* the markers of the ingest filter that are switched on and found in the filename
focus_marker(filename) ==
  \/ contains(upper(filename), <<"F","O","C","U","S">>)
  \/ contains(lower(filename), <<"f","o","c","u","s","t","e","s","t">>)
  \/ contains(lower(filename), <<"a","u","t","o","f","o","c","u","s">>)

test_marker(filename) ==
  \/ contains(upper(filename), <<"T","E","S","T">>)
  \/ contains(lower(filename), <<"t","e","s","t">>)
  \/ contains(upper(filename), <<"C","A","L","I","B">>)

carries_marker(r) ==
  \/ r.exclude_focus /\ focus_marker(r.filename)
  \/ r.exclude_test /\ test_marker(r.filename)

\* C14: the ingest filter never counts a filename that carries an exclusion marker
\* (focus, test, calibration) as unparseable: it is counted under its exclusion reason only.
ExclusionBeforeClassification ==
  report.kind = "filename" /\ carries_marker(report) =>
    report.exclusion_reason \in {"focus_files", "test_files"}

\* what the code does: classification comes first, and a filename with a marker is counted
\* under its exclusion reason only when a grammar matches it
ExclusionAfterClassification ==
  report.kind = "filename" /\ carries_marker(report) =>
    report.exclusion_reason = IF ~report.analyzer.ok THEN "unparseable_files"
                              ELSE IF report.exclude_focus /\ focus_marker(report.filename)
                              THEN "focus_files" ELSE "test_files"

\* a filename that carries a marker and matches a grammar was counted under its reason
MarkerExcludedSeen ==
  /\ report.kind = "filename" /\ carries_marker(report) /\ report.analyzer.ok
  /\ report.exclusion_reason \in {"focus_files", "test_files"}


UnmountRoot ==
  /\ fs.root_ok
  /\ fs' = [fs EXCEPT !.root_ok = FALSE]
  /\ UNCHANGED <<frames, targets, tiles, nights, proc, hist, report>>

\* the data root is back
MountRoot ==
  /\ ~fs.root_ok
  /\ fs' = [fs EXCEPT !.root_ok = TRUE]
  /\ UNCHANGED <<frames, targets, tiles, nights, proc, hist, report>>

\* the next run of the command is given --date d
ChooseDate(p, d) ==
  /\ proc[p].pc = "idle"
  /\ proc[p].opts.date_str # d
  /\ proc' = [proc EXCEPT ![p].opts.date_str = d]
  /\ UNCHANGED <<fs, frames, targets, tiles, nights, hist, report>>

\* _flush_nights: nothing to do on an empty table; otherwise every Night is deleted, and the
\* frames of the deleted nights go with them
flush_nights ==
  /\ \A p \in Procs : proc[p].pc = "idle"
  /\ nights # {}
  /\ nights' = {}
  /\ frames' = SelectSeq(frames, LAMBDA r : r.night \notin nights)
  /\ UNCHANGED <<fs, targets, tiles, proc, hist, report>>

\* the catalog files on the disks of this specification: one in a folder of each date, and a bias
NightFiles == {1, 2, 3}

InitNights ==
  /\ EmptyStore
  /\ \E d \in Disks(NightFiles) : fs = [files |-> d, root_ok |-> TRUE, denied |-> {}]
  /\ \E o \in Options({<<FALSE, 1>>}, {0}, {FALSE}, {TRUE}, {TRUE}) :
       proc = [p \in Procs |-> IdleProc(o)]

NextNights ==
  \/ Ingest(1)
  \/ UnmountRoot
  \/ MountRoot
  \/ \E d \in Dates : ChooseDate(1, d)
  \/ flush_nights

SpecNights == InitNights /\ [][NextNights]_vars

\* a run of enhanced_ingest begins in this step, with the data root missing
starts_without_root ==
  /\ ~fs.root_ok
  /\ proc[1].pc = "idle"
  /\ Ingest(1)

\* C16: a run of enhanced_ingest that begins while the data root is missing aborts before any
\* work: it deletes no frame and no Target, creates no Night and imports nothing
RootMissingAbortsClean ==
  [][starts_without_root
       => /\ frames' = frames
          /\ targets' = targets
          /\ nights' = nights
          /\ proc'[1].pc = "idle"]_vars

\* what the code guarantees of such a run: nothing is imported and nothing is added to the
\* frame tables or to the Target table
RootMissingImportsNothing ==
  [][starts_without_root
       => /\ proc'[1].pc = "idle"
          /\ db_files(frames') \subseteq db_files(frames)
          /\ targets' \subseteq targets]_vars

\* a run with cleanup found no file on a disk that holds the date's files, and its Night is there
RootMissingRunSeen ==
  /\ nights = {IngestDate}
  /\ proc[1].opts.date_str = IngestDate
  /\ \E f \in fs.files : startswith(Catalog[f].folder, IngestDate)
  /\ hist[1].outcome = "no_files"
  /\ hist[1].cleanup

\* C17: no step of the ingest pipeline (cleanup, Night initialisation, import, target passes,
\* report) removes a Night: the Night table shrinks only in a step of _flush_nights
NightsOnlyGrow ==
  [][nights \subseteq nights' \/ flush_nights]_vars

\* a run with cleanup ended for one date while the Night of the other date is still there
NightKeptThroughCleanupSeen ==
  /\ nights = Dates
  /\ hist[1].cleanup
  /\ hist[1].outcome \in {"completed", "no_files"}
  /\ \E i \in 1..Len(frames) : frames[i].night # proc[1].opts.date_str

(***************************************************************************)
(* The auto-ingest monitor of update_nights: the monitoring loop, its      *)
(* state file, its stop by a signal, its death without one, its restart.   *)
(* Here fs also holds the clock (in seconds), the observation folders and  *)
(* the state file; proc is the monitor process; hist keeps, per folder,    *)
(* the stability checks passed in a row since the last failed one, and     *)
(* whether the pending folders were restored from the state file, the      *)
(* folders ever ingested with success and those triggered again; report    *)
(* is what the last cycle triggered.  The ingestion that a trigger starts  *)
(* is another command: only its return code is modelled.                   *)
(***************************************************************************)
\* the observation folders that may appear under the data root
Folders == {Catalog[f].folder : f \in IngestFiles}

\* the number of monitoring cycles of a behaviour
MaxCycles == 6

\* the state is saved when more than this many seconds passed since the last save
SAVE_INTERVAL == 600

\* --interval, --skip-recent-folders, --ingest-delay, --file-stability-checks
MonitorOptions ==
  [interval : {300}, skip_recent_folders : {0, 600}, ingest_delay : {300},
   file_stability_checks : {2, 3}]

\* _save_processing_state: what json.dump writes
save_processing_state(pending_folders, processed_folders, now) ==
  [pending_folders |-> pending_folders, processed_folders |-> processed_folders,
   last_saved |-> now]

\* _load_processing_state: the saved state when there is one less than 24 hours old
load_processing_state(now) ==
  IF fs.state_file # None /\ now - the(fs.state_file).last_saved < 24 * 3600
  THEN [pending_folders |-> the(fs.state_file).pending_folders,
        processed_folders |-> the(fs.state_file).processed_folders]
  ELSE [pending_folders |-> <<>>, processed_folders |-> {}]

\* _check_and_process_new_folders; stable[f] is what _check_folder_stability returns for f in
\* this cycle and success[f] what _trigger_folder_ingestion returns
check_and_process_new_folders(m, current_time, stable, success) ==
  LET o == m.options
      new_folders == fs.folders \ m.processed_folders
      detected == new_folders \ DOMAIN m.pending_folders
      pending1 == [f \in DOMAIN m.pending_folders \cup detected |->
                     IF f \in detected
                     THEN [detected_at |-> current_time, stability_checks |-> 0]
                     ELSE m.pending_folders[f]]
      age == [f \in DOMAIN pending1 |-> current_time - pending1[f].detected_at]
      checked == {f \in DOMAIN pending1 :
                    ~(age[f] < o.skip_recent_folders) /\ ~(age[f] < o.ingest_delay)}
      triggered == {f \in checked :
                      /\ stable[f]
                      /\ pending1[f].stability_checks + 1 >= o.file_stability_checks}
      processed == {f \in triggered : success[f]}
      pending2 == [f \in DOMAIN pending1 \ processed |->
                     IF f \notin checked THEN pending1[f]
                     ELSE IF ~stable[f] \/ f \in triggered
                     THEN [pending1[f] EXCEPT !.stability_checks = 0]
                     ELSE [pending1[f] EXCEPT !.stability_checks = @ + 1]]
      old_folders == {f \in DOMAIN pending2 :
                        pending2[f].detected_at < current_time - 24 * 3600}
  IN  [pending_folders |-> [f \in DOMAIN pending2 \ old_folders |-> pending2[f]],
       processed_folders |-> m.processed_folders \cup processed,
       age |-> age, checked |-> checked, triggered |-> triggered]

\* a monitor process that is not running
StoppedMonitor(options) ==
  [pc |-> "stopped", options |-> options, pending_folders |-> <<>>, processed_folders |-> {},
   last_state_save |-> 0]

\* handle with --auto-ingest: the monitor starts from the state file
handle ==
  /\ proc.pc = "stopped"
  /\ LET state == load_processing_state(fs.clock)
     IN  /\ proc' = [proc EXCEPT !.pc = "monitoring",
                                 !.pending_folders = state.pending_folders,
                                 !.processed_folders = state.processed_folders,
                                 !.last_state_save = fs.clock]
         /\ hist' = [hist EXCEPT !.restored = @ \/ DOMAIN state.pending_folders # {}]
  /\ UNCHANGED <<fs, frames, targets, tiles, nights, report>>

\* one cycle of the monitoring loop: the folder check, the periodic save, the sleep
MonitorCycle ==
  /\ proc.pc = "monitoring"
  /\ fs.clock < MaxCycles * proc.options.interval
  /\ \E stable \in [Folders -> BOOLEAN], success \in [Folders -> BOOLEAN] :
       LET r == check_and_process_new_folders(proc, fs.clock, stable, success)
           save == fs.clock - proc.last_state_save > SAVE_INTERVAL
           streak == [f \in Folders |->
                        IF f \notin r.checked THEN hist.streak[f]
                        ELSE IF stable[f] THEN hist.streak[f] + 1 ELSE 0]
       IN  /\ proc' = [proc EXCEPT !.pending_folders = r.pending_folders,
                                   !.processed_folders = r.processed_folders,
                                   !.last_state_save = IF save THEN fs.clock ELSE @]
           /\ fs' = [fs EXCEPT !.clock = @ + proc.options.interval,
                               !.state_file =
                                  IF save
                                  THEN Some(save_processing_state(r.pending_folders,
                                                                  r.processed_folders,
                                                                  fs.clock))
                                  ELSE @]
           /\ hist' = [hist EXCEPT !.streak = streak,
                                   !.ingested = @ \cup (r.processed_folders \ proc.processed_folders),
                                   !.retriggered = @ \cup (r.triggered \cap hist.ingested)]
           /\ report' = [kind |-> "monitor",
                         triggered |-> {[folder |-> f, age |-> r.age[f],
                                         streak |-> streak[f]] : f \in r.triggered}]
  /\ UNCHANGED <<frames, targets, tiles, nights>>

\* signal_handler on SIGINT or SIGTERM: the state is saved when folders are pending
signal_handler ==
  /\ proc.pc = "monitoring"
  /\ fs' = [fs EXCEPT !.state_file =
              IF DOMAIN proc.pending_folders # {}
              THEN Some(save_processing_state(proc.pending_folders, proc.processed_folders,
                                              fs.clock))
              ELSE @]
  /\ proc' = StoppedMonitor(proc.options)
  /\ UNCHANGED <<frames, targets, tiles, nights, hist, report>>

\* the process dies without running the handler (SIGKILL, power loss)
Kill ==
  /\ proc.pc = "monitoring"
  /\ proc' = StoppedMonitor(proc.options)
  /\ UNCHANGED <<fs, frames, targets, tiles, nights, hist, report>>

\* an observation folder appears under the data root
NewFolder(f) ==
  /\ f \notin fs.folders
  /\ fs' = [fs EXCEPT !.folders = @ \cup {f}]
  /\ UNCHANGED <<frames, targets, tiles, nights, proc, hist, report>>

InitMonitor ==
  /\ fs = [files |-> {}, root_ok |-> TRUE, denied |-> {}, clock |-> 0, folders |-> {},
           state_file |-> None]
  /\ frames = <<>>
  /\ targets = {}
  /\ tiles = {}
  /\ nights = {}
  /\ \E o \in MonitorOptions : proc = [StoppedMonitor(o) EXCEPT !.pc = "monitoring"]
  /\ hist = [streak |-> [f \in Folders |-> 0], restored |-> FALSE, ingested |-> {},
             retriggered |-> {}]
  /\ report = [kind |-> "monitor", triggered |-> {}]

NextMonitor ==
  \/ MonitorCycle
  \/ signal_handler
  \/ Kill
  \/ handle
  \/ \E f \in Folders : NewFolder(f)

SpecMonitor == InitMonitor /\ [][NextMonitor]_vars

\* the folder of t was old enough and had passed enough stability checks in a row
ready(t) ==
  /\ t.age >= proc.options.skip_recent_folders
  /\ t.age >= proc.options.ingest_delay
  /\ t.streak >= proc.options.file_stability_checks

\* C18: the monitor triggers the ingestion of a pending folder only when the folder's age since
\* detection is at least skip_recent_folders and ingest_delay and the folder has passed
\* file_stability_checks stability checks in a row, with no failed check in between
TriggerOnlyWhenStable ==
  \A t \in report.triggered : ready(t)

\* the same of a monitor that never took its pending folders from the state file
TriggerOnlyWhenStableInOneRun ==
  ~hist.restored => \A t \in report.triggered : ready(t)

\* whatever happened, a triggered folder was old enough
TriggerOnlyWhenOldEnough ==
  \A t \in report.triggered :
    t.age >= proc.options.skip_recent_folders /\ t.age >= proc.options.ingest_delay

\* an ingestion was triggered on a counter restored from the state file, after a failed check
StaleCounterTriggerSeen ==
  /\ hist.restored
  /\ \E t \in report.triggered : t.streak < proc.options.file_stability_checks

\* the bucket that C19 gives the analysed file f: its filename date, without one its folder
\* date, without either the no-date bucket
bucket_as_specified(f) ==
  IF DateInfo[f].filename_date # None THEN the(DateInfo[f].filename_date)
  ELSE IF DateInfo[f].folder_date # None THEN the(DateInfo[f].folder_date)
  ELSE <<"S","P","E","C","I","A","L">>

\* C19: the filename-based analysis puts each missing file in the bucket of its filename date
\* when the filename carries one, otherwise in the bucket of its folder date, and in the
\* no-date bucket only when it has neither date
MissingBucketedByDate ==
  report.kind = "by_filename" =>
    \A f \in report.analysed :
      basename(f) \in report.missing_files => buckets_of(basename(f)) = {bucket_as_specified(f)}

\* what the code does: the bucket is the filename date, and the no-date bucket without one
MissingBucketedByFilenameDate ==
  report.kind = "by_filename" =>
    \A f \in report.analysed :
      basename(f) \in report.missing_files => buckets_of(basename(f)) = {date_key(basename(f))}

\* a missing file without a filename date, in a folder with a date, is in the no-date bucket
DatedFolderInNoDateBucketSeen ==
  /\ report.kind = "by_filename"
  /\ \E f \in report.analysed :
       /\ DateInfo[f].filename_date = None
       /\ DateInfo[f].folder_date # None
       /\ buckets_of(basename(f)) = {<<"S","P","E","C","I","A","L">>}

(***************************************************************************)
(* Large batches: one sequential run of enhanced_ingest, with targets and  *)
(* without cleanup, over a night of n exposures into an empty store.  The  *)
(* i-th file of the sorted batch is the pair <<f, i>>: it carries the      *)
(* sequence number i and is otherwise named, and so classified, as catalog *)
(* file f.  Here proc is the position of the run and its batch.            *)
(***************************************************************************)
\* the sizes of the batches, around SAMPLE_SIZE and around twice SAMPLE_SIZE
BatchSizes == {1, 2, 3, 999, 1000, 1999, 2000, 2001, 3000}

\* where in the batch the one exposure of M51 is; the others are bias exposures
ObjectPlaces == 1..4

\* the sorted batch: bias exposures (as catalog file 2) and one of M51 (as catalog file 3)
exposures(n, place) == [i \in 1..n |-> IF i = place THEN <<3, i>> ELSE <<2, i>>]

\* the filename of an exposure: the sequence number of the catalog name replaced
exposure_name(x) ==
  LET name == basename(x[1])
      i == x[2]
  IN  SubSeq(name, 1, Len(name) - 9)
        \o <<DigitChars[((i \div 1000) % 10) + 1], DigitChars[((i \div 100) % 10) + 1],
             DigitChars[((i \div 10) % 10) + 1], DigitChars[(i % 10) + 1]>>
        \o <<".","f","i","t","s">>

\* Steps 2 to 4: the Night, the batch, the target pre-pass over its sample
PrePassBatch ==
  /\ proc.pc = "pre_pass"
  /\ LET file_paths == exposures(proc.n, proc.place)
         sf == sampled_files(file_paths)
     IN  targets' = create_all(targets, UNION {Candidates[sf[k][1]] : k \in 1..Len(sf)})
  /\ nights' = get_or_create_for_date(nights, proc.date_str)
  /\ proc' = [proc EXCEPT !.pc = "import"]
  /\ UNCHANGED <<fs, frames, tiles, hist, report>>

\* Step 5, import_files in one process: every file of the batch is new to the empty store
ImportBatch ==
  /\ proc.pc = "import"
  /\ LET file_paths == exposures(proc.n, proc.place)
     IN  frames' = [i \in 1..Len(file_paths) |->
                      [new_frame(file_paths[i][1], proc.date_str)
                         EXCEPT !.original_filename = exposure_name(file_paths[i])]]
  /\ proc' = [proc EXCEPT !.pc = "post_pass", !.imported = proc.n]
  /\ UNCHANGED <<fs, targets, tiles, nights, hist, report>>

\* Step 6: the target post-pass, as something was imported
PostPassBatch ==
  /\ proc.pc = "post_pass"
  /\ proc.imported > 0
  /\ LET post == post_process_targets(frames, targets, tiles, proc.date_str, FALSE)
     IN  /\ frames' = post.frames
         /\ targets' = post.targets
  /\ proc' = [proc EXCEPT !.pc = "done"]
  /\ UNCHANGED <<fs, tiles, nights, hist, report>>

InitBatch ==
  /\ EmptyStore
  /\ fs = [files |-> {}, root_ok |-> TRUE, denied |-> {}]
  /\ \E n \in BatchSizes, place \in ObjectPlaces :
       /\ place <= n
       /\ proc = [pc |-> "pre_pass", n |-> n, place |-> place, date_str |-> IngestDate,
                  imported |-> 0]

NextBatch == PrePassBatch \/ ImportBatch \/ PostPassBatch

SpecBatch == InitBatch /\ [][NextBatch]_vars

\* the frame is a science frame whose object name qualifies for a Target
qualifies(row) ==
  /\ row.frame_type = <<"S","C","I","E","N","C","E">>
  /\ Len(row.object_name) > 0
  /\ row.object_name # <<"U","N","K","N","O","W","N">>
  /\ upper(row.object_name) \notin {<<"B","I","A","S">>, <<"D","A","R","K">>, <<"F","L","A","T">>, <<"C","A","L","I","B">>, <<"C","A","L","I","B","R","A","T","I","O","N">>}
  /\ \A marker \in {<<"F","O","C","U","S">>, <<"T","E","S","T">>, <<"A","U","T","O","F","O","C","U","S">>, <<"F","O","C","U","S","T","E","S","T">>} :
       ~contains(upper(row.object_name), marker)
  /\ ~(Head(row.object_name) = "T" /\ isdigit(Tail(row.object_name)))

\* every qualifying frame of the store is linked to a Target of its name
qualifying_linked ==
  \A i \in 1..Len(frames) :
    qualifies(frames[i]) =>
      /\ frames[i].target = Some(frames[i].object_name)
      /\ \E t \in targets : t.name = frames[i].object_name

\* C20: after the pre-pass, the import and the post-pass over a batch, every imported science
\* frame whose object name qualifies for a Target is linked to a Target of that name,
\* whatever the size of the batch
QualifyingFramesLinked ==
  proc.pc = "done" => qualifying_linked

\* the same of the batches that the pre-pass reads whole: fewer than 2 * SAMPLE_SIZE files
QualifyingFramesLinkedUnsampled ==
  (proc.pc = "done" /\ proc.n < 2 * SAMPLE_SIZE) => qualifying_linked

\* a batch of at least 2 * SAMPLE_SIZE files was ingested and its M51 frame has no Target
UnsampledObjectSeen ==
  /\ proc.pc = "done"
  /\ proc.n >= 2 * SAMPLE_SIZE
  /\ \E i \in 1..Len(frames) : qualifies(frames[i]) /\ frames[i].target = None
  /\ targets = {}

\* the same of the runs over the catalog files, all of them small: when the post-pass has run,
\* every qualifying frame of the store is linked
QualifyingFramesLinkedSmallBatch ==
  (proc[1].pc = "idle" /\ hist[1].outcome = "completed" /\ hist[1].post_ran) => qualifying_linked

\* the rows that the post-pass of run h visited with a name T<digits> and no Tile of that id
unresolved_tile_rows(h) ==
  {i \in 1..Len(h.pass_frames) :
     /\ h.pass_frames[i].frame_type = <<"S","C","I","E","N","C","E">>
     /\ h.pass_frames[i].night = proc[1].opts.date_str
     /\ proc[1].opts.debug \/ (h.pass_frames[i].target = None /\ h.pass_frames[i].tile = None)
     /\ is_tile_reference(h.pass_frames[i].object_name)
     /\ TileIdOf(h.pass_frames[i].object_name) \notin h.tiles0}

\* C21: a science frame named T<digits> for which no Tile of that id exists comes out of the
\* post-pass with neither a Tile link nor a Target link
UnresolvedTileLeftUnlinked ==
  (proc[1].pc = "idle" /\ hist[1].post_ran) =>
    \A i \in unresolved_tile_rows(hist[1]) :
      hist[1].frames1[i].tile = None /\ hist[1].frames1[i].target = None

\* the part of C21 the code keeps: such a frame gets no Tile link, and no step of a run,
\* pre-pass and post-pass included, changes the Tile table
UnresolvedTileGetsNoTile ==
  (proc[1].pc = "idle" /\ hist[1].post_ran) =>
    \A i \in unresolved_tile_rows(hist[1]) :
      hist[1].frames1[i].tile = hist[1].pass_frames[i].tile

PassesCreateNoTile == [][Reimport(1) => tiles' = tiles]_vars

\* the post-pass linked a frame named T<digits>, with no Tile of that id, to a Target
UnresolvedTileLinkedToTargetSeen ==
  /\ proc[1].pc = "idle" /\ hist[1].post_ran
  /\ \E i \in unresolved_tile_rows(hist[1]) :
       /\ hist[1].pass_frames[i].target = None
       /\ hist[1].frames1[i].target = Some(hist[1].frames1[i].object_name)

(***************************************************************************)
(* The pure functions of the ingest and of the monitor, each applied to    *)
(* inputs of its own: report holds the last call and what it returned      *)
(***************************************************************************)
\* the fields an analyzer may carry and the tokens they may hold
ParsedFields == {"frame_type", "imagetyp", "obstype", "object_info", "object_name", "focus_or_object"}

ParsedTokens == {<<>>, <<"L","I","G","H","T">>, <<"d","a","r","k">>, <<"S","K","Y","F","L","A","T">>, <<"M","5","1">>, <<"B","I","A","S">>}

\* analyzers with at most two fields parsed, and the analyzer of a filename no grammar matches
Analyzers ==
  {[ok |-> TRUE, filename_pattern |-> "", parsed_filename |-> parsed] :
     parsed \in UNION {[D -> ParsedTokens] : D \in {E \in SUBSET ParsedFields : Cardinality(E) <= 2}}}
    \cup {[ok |-> FALSE, filename_pattern |-> "", parsed_filename |-> <<>>]}

\* per analyzer, what the two extractors return
Extracted ==
  [analyzer \in Analyzers |->
     [kind |-> "frame_type", analyzer |-> analyzer,
      object_name |-> get_object_name_from_analyzer(analyzer),
      frame_type |-> get_frame_type_from_analyzer(analyzer)]]

\* a call of get_object_name_from_analyzer and get_frame_type_from_analyzer
ExtractFrameType(analyzer) ==
  /\ report' = Extracted[analyzer]
  /\ UNCHANGED <<fs, frames, targets, tiles, nights, proc, hist>>

\* target names: one for each word of determine_target_type, some with two, some with none
TargetNames ==
  {<<"M","5","1">>, <<"N","G","C","1","2","3","4">>, <<"m","5","1">>, <<"G","R","B","2","5","0","1","0","1","A">>, <<"S","N","2","0","2","5","a","b">>, <<"A","T","2","0","2","5","x">>, <<"T","O","O","1">>, <<"g","r","b","1">>,
   <<"L","T","T","1","0","2","0">>, <<"S","A","9","5">>, <<"P","G","1","6","3","3">>, <<"F","E","I","G","E","1","1","0">>, <<"W","D","0","1","2","3">>, <<"T","E","S","T","1">>, <<"F","O","C","U","S">>, <<"F","O","C","U","S","T","O","O">>,
   <<"L","T","T","T","E","S","T">>, <<"D","A","R","K","N","E","B">>, <<"S","K","Y","F","L","A","T">>, <<"B","I","A","S">>, <<"C","A","L","I","B","1">>, <<"D","A","R","K","S","N">>, <<"S","A","T","U","R","N">>, <<"F","e","i","g","e","3","4">>}

TargetTypes ==
  [target_name \in TargetNames |->
     [kind |-> "target_type", target_name |-> target_name,
      target_type |-> determine_target_type(target_name)]]

\* a call of determine_target_type
DetermineTargetType(target_name) ==
  /\ report' = TargetTypes[target_name]
  /\ UNCHANGED <<fs, frames, targets, tiles, nights, proc, hist>>

\* _calculate_smart_interval
calculate_smart_interval(change_detected, consecutive_no_changes, min_interval, max_interval, base_interval) ==
  IF change_detected THEN min_interval
  ELSE IF consecutive_no_changes < 5 THEN base_interval
  ELSE IF consecutive_no_changes < 20 THEN Min(base_interval * 2, max_interval)
  ELSE max_interval

\* --min-interval, --max-interval and --interval, and the counts of quiet cycles around 5 and 20
IntervalInputs ==
  [change_detected : BOOLEAN, consecutive_no_changes : {0, 4, 5, 19, 20},
   min_interval : {60, 120}, max_interval : {60, 120, 1800}, base_interval : {20, 60, 100, 300, 3600}]

\* a call of _calculate_smart_interval
CalculateSmartInterval(i) ==
  /\ report' = [kind |-> "smart_interval", input |-> i,
                interval |-> calculate_smart_interval(i.change_detected,
                                                      i.consecutive_no_changes, i.min_interval,
                                                      i.max_interval, i.base_interval)]
  /\ UNCHANGED <<fs, frames, targets, tiles, nights, proc, hist>>

InitFunctions ==
  /\ EmptyStore
  /\ fs = [files |-> {}, root_ok |-> TRUE, denied |-> {}]
  /\ \E o \in Options({<<FALSE, 1>>}, {0}, {FALSE}, {TRUE}, {TRUE}) :
       proc = [p \in Procs |-> IdleProc(o)]

NextFunctions ==
  \/ \E analyzer \in Analyzers : ExtractFrameType(analyzer)
  \/ \E target_name \in TargetNames : DetermineTargetType(target_name)
  \/ \E i \in IntervalInputs : CalculateSmartInterval(i)

SpecFunctions == InitFunctions /\ [][NextFunctions]_vars

\* the frame type C22 gives an analyzer: the explicit token, LIGHT read as SCIENCE; without
\* one BIAS, DARK or FLAT when the object name contains the word; SCIENCE otherwise.  Letter
\* case is ignored, as the code ignores it.
frame_type_as_specified(analyzer, object_name) ==
  LET explicit == FirstTypeField(analyzer.parsed_filename)
      name == IF object_name = None THEN <<>> ELSE upper(the(object_name))
  IN  IF analyzer.ok /\ explicit # None
      THEN IF upper(the(explicit)) = <<"L","I","G","H","T">> THEN <<"S","C","I","E","N","C","E">> ELSE upper(the(explicit))
      ELSE IF contains(name, <<"B","I","A","S">>) THEN <<"B","I","A","S">>
      ELSE IF contains(name, <<"D","A","R","K">>) THEN <<"D","A","R","K">>
      ELSE IF contains(name, <<"F","L","A","T">>) THEN <<"F","L","A","T">>
      ELSE <<"S","C","I","E","N","C","E">>

\* C22: the frame type is SCIENCE for the explicit token LIGHT and otherwise the explicit
\* token; without an explicit token it is BIAS, DARK or FLAT when the object name of the file
\* contains that word; in every other case, a filename with no parsed fields included, SCIENCE
FrameTypeAsSpecified ==
  report.kind = "frame_type" =>
    report.frame_type = frame_type_as_specified(report.analyzer, report.object_name)

\* the same where the object name is in the field object_info or object_name
FrameTypeFromNamedFields ==
  (report.kind = "frame_type" /\ ~HasField(report.analyzer.parsed_filename, "focus_or_object")) =>
    report.frame_type = frame_type_as_specified(report.analyzer, report.object_name)

\* a file whose object name contains BIAS, with no explicit token, was given SCIENCE
CalibrationNameAsScienceSeen ==
  /\ report.kind = "frame_type"
  /\ FirstTypeField(report.analyzer.parsed_filename) = None
  /\ report.object_name = Some(<<"B","I","A","S">>)
  /\ report.frame_type = <<"S","C","I","E","N","C","E">>

\* the words of the type rules that the upper-cased name contains
has_word(target_name, words) == AnyOf(words, upper(target_name))

\* the target type C23 gives a name
target_type_as_specified(target_name) ==
  IF has_word(target_name, {<<"G","R","B">>, <<"S","N">>, <<"A","T">>, <<"T","O","O">>}) THEN "TOO"
  ELSE IF has_word(target_name, {<<"L","T","T">>, <<"S","A">>, <<"P","G">>, <<"F","E","I","G","E">>, <<"W","D">>}) THEN "STD"
  ELSE IF has_word(target_name, {<<"T","E","S","T">>, <<"F","O","C","U","S">>}) THEN "TEST"
  ELSE "EXSCI"

\* C23 (amended): the target type of a name is TEST if the upper-cased name contains BIAS,
\* DARK, FLAT or CALIB; otherwise TOO if it contains GRB, SN, AT or TOO; otherwise STD if it
\* contains LTT, SA, PG, FEIGE or WD; otherwise TEST if it contains TEST or FOCUS; otherwise
\* EXSCI
TargetTypeInferred ==
  report.kind = "target_type" =>
    report.target_type =
      IF has_word(report.target_name, {<<"B","I","A","S">>, <<"D","A","R","K">>, <<"F","L","A","T">>, <<"C","A","L","I","B">>}) THEN "TEST"
      ELSE target_type_as_specified(report.target_name)

\* C23 as stated: TOO, STD, TEST, EXSCI by the three word lists alone
TargetTypeByThreeLists ==
  report.kind = "target_type" => report.target_type = target_type_as_specified(report.target_name)

\* a name with a calibration word and a word of the TOO list was typed TEST
CalibrationWordWinsSeen ==
  /\ report.kind = "target_type"
  /\ has_word(report.target_name, {<<"B","I","A","S">>, <<"D","A","R","K">>, <<"F","L","A","T">>, <<"C","A","L","I","B">>})
  /\ has_word(report.target_name, {<<"G","R","B">>, <<"S","N">>, <<"A","T">>, <<"T","O","O">>})
  /\ report.target_type = "TEST"

\* C26: for min_interval <= max_interval the interval _calculate_smart_interval returns lies
\* within [min_interval, max_interval], whatever the base interval, the change flag and the
\* count of cycles without change
SmartIntervalWithinBounds ==
  (report.kind = "smart_interval" /\ report.input.min_interval <= report.input.max_interval) =>
    /\ report.input.min_interval <= report.interval
    /\ report.interval <= report.input.max_interval

\* with the base interval itself within [min_interval, max_interval] the result is within it
SmartIntervalWithinBoundsForBoundedBase ==
  (/\ report.kind = "smart_interval"
   /\ report.input.min_interval <= report.input.base_interval
   /\ report.input.base_interval <= report.input.max_interval) =>
    /\ report.input.min_interval <= report.interval
    /\ report.interval <= report.input.max_interval

\* a quiet cycle returned a base interval below the minimum
BaseIntervalBelowMinimumSeen ==
  /\ report.kind = "smart_interval"
  /\ report.input.min_interval <= report.input.max_interval
  /\ ~report.input.change_detected
  /\ report.input.consecutive_no_changes < 5
  /\ report.interval = report.input.base_interval
  /\ report.interval < report.input.min_interval

\* the files the pre-pass of the run examined
examined_files == sampled_files(exposures(proc.n, proc.place))

\* C27: for every batch size the pre-pass examines at most 1,000 files: a batch of at most
\* 1,000 files is examined in full, a larger one is sampled down to at most 1,000
PrePassExaminesAtMostSample ==
  proc.pc # "pre_pass" =>
    /\ Len(examined_files) <= SAMPLE_SIZE
    /\ proc.n <= SAMPLE_SIZE => Len(examined_files) = proc.n

\* a batch of at most 1,000 files is examined in full, and a batch of n files with step
\* n div 1000 has ceil(n / step) files examined, fewer than 2,000
PrePassExaminesEveryStepth ==
  proc.pc # "pre_pass" =>
    LET step == Max(1, proc.n \div Min(SAMPLE_SIZE, proc.n))
    IN  /\ Len(examined_files) = (proc.n + step - 1) \div step
        /\ Len(examined_files) < 2 * SAMPLE_SIZE
        /\ proc.n <= SAMPLE_SIZE => Len(examined_files) = proc.n

\* the pre-pass of a batch of more than 1,000 files examined every file of it
LargeBatchExaminedInFullSeen ==
  /\ proc.pc # "pre_pass"
  /\ proc.n > SAMPLE_SIZE
  /\ Len(examined_files) = proc.n

\* C28: whenever discovery finds at least one file, enhanced_ingest runs to completion and
\* reports an import summary, also when the filter excludes every discovered file and the
\* batch handed to the pre-pass and the import is empty
DiscoveredFilesReachSummary ==
  \A p \in Procs :
    (hist[p].outcome \notin {"none", "cancelled"} /\ Len(hist[p].all_files) > 0) =>
      hist[p].outcome = "completed"

\* a run that discovered files and handed on a non-empty batch reached its summary
NonEmptyBatchReachesSummary ==
  \A p \in Procs :
    (hist[p].outcome \notin {"none", "cancelled"} /\ Len(hist[p].files) > 0) =>
      hist[p].outcome = "completed"

\* a run discovered files, its filter excluded every one, and the pre-pass raised
EmptyBatchRaisedSeen ==
  /\ hist[1].outcome = "raised"
  /\ Len(hist[1].all_files) > 0
  /\ Len(hist[1].files) = 0
  /\ proc[1].pc = "idle"

\* cleanup_existing_data asks for confirmation: the Night is there, with frames or test targets
cleanup_prompts(date_str) ==
  /\ date_str \in nights
  /\ \/ \E i \in 1..Len(frames) : frames[i].night = date_str
     \/ \E t \in targets : t.name \in test_target_names

\* C29: when cleanup is requested without auto-confirm and the answer to the prompt is not YES,
\* no frame and no Target is deleted, and enhanced_ingest stops without creating a Night,
\* creating Targets or importing
CancelledCleanupChangesNothing ==
  [][\A p \in Procs, response \in Responses \ {"YES"} :
       (StartIngest(p, TRUE, FALSE, response) /\ cleanup_prompts(proc[p].opts.date_str)) =>
         /\ frames' = frames
         /\ targets' = targets
         /\ nights' = nights
         /\ proc'[p].pc = "idle"
         /\ hist'[p].outcome = "cancelled"]_vars

\* a run with cleanup was cancelled at the prompt with frames of its Night in the store
CancelledCleanupSeen ==
  /\ hist[1].outcome = "cancelled"
  /\ hist[1].cleanup
  /\ \E i \in 1..Len(frames) : frames[i].night = proc[1].opts.date_str
  /\ proc[1].pc = "idle"

(***************************************************************************)
(* discover_fits_files over disks on which the directory of a unit cannot  *)
(* be listed: os.listdir(unit_path) raises and the unit is skipped.        *)
(***************************************************************************)
\* the unit directories under the base path
unit_dirs == {Catalog[f].unit : f \in FileIds}

\* the files that may be on the scanned disk: of both units, of both dates
ScanFiles == {1, 3, 4, 6, 8, 9}

\* the units whose scan raised and was logged ("Permission denied accessing", "Error scanning")
scan_warnings == IF fs.root_ok THEN unit_dirs \cap fs.denied ELSE {}

\* a call of discover_fits_files
Discover(date_str) ==
  /\ report' = [kind |-> "discovery", date_str |-> date_str, files |-> fs.files,
                denied |-> fs.denied, warned |-> scan_warnings,
                all_files |-> discover_fits_files(date_str)]
  /\ UNCHANGED <<fs, frames, targets, tiles, nights, proc, hist>>

\* the permissions of a unit directory change
Chmod(unit) ==
  /\ fs' = [fs EXCEPT !.denied = IF unit \in fs.denied THEN fs.denied \ {unit}
                                 ELSE fs.denied \cup {unit}]
  /\ UNCHANGED <<frames, targets, tiles, nights, proc, hist, report>>

InitScan ==
  /\ EmptyStore
  /\ \E d \in SUBSET ScanFiles : fs = [files |-> d, root_ok |-> TRUE, denied |-> {}]
  /\ \E o \in Options({<<FALSE, 1>>}, {0}, {FALSE}, {TRUE}, {TRUE}) :
       proc = [p \in Procs |-> IdleProc(o)]

NextScan ==
  \/ \E date_str \in Dates : Discover(date_str)
  \/ \E unit \in unit_dirs : Chmod(unit)

SpecScan == InitScan /\ [][NextScan]_vars

\* the file is a FITS file in a folder of the date
matches_date(f, date_str) ==
  /\ \/ Catalog[f].folder = date_str
     \/ startswith(Catalog[f].folder, date_str \o <<"_">>)
  /\ \/ endswith(Catalog[f].name, <<".","f","i","t","s">>)
     \/ endswith(Catalog[f].name, <<".","f","i","t","s",".","f","z">>)

\* C24: when the scan of one unit directory fails, discovery logs the failure, skips that
\* unit and returns every matching file of the remaining units: a failing unit never empties
\* or aborts the whole scan
FailedUnitSkipped ==
  report.kind = "discovery" =>
    /\ report.warned = report.denied
    /\ \A f \in report.files :
         (Catalog[f].unit \notin report.denied /\ matches_date(f, report.date_str))
           <=> (\E i \in 1..Len(report.all_files) : report.all_files[i] = f)

\* a scan skipped a unit that holds files of the date and returned those of the other unit
FailedUnitSkippedSeen ==
  /\ report.kind = "discovery"
  /\ \E f \in report.files :
       Catalog[f].unit \in report.denied /\ matches_date(f, report.date_str)
  /\ \E f \in report.files : Catalog[f].unit \notin report.denied
  /\ Len(report.all_files) > 0

\* the monitor without deaths: cycles, stops by a signal, restarts
NextMonitorSignals ==
  \/ MonitorCycle
  \/ signal_handler
  \/ handle
  \/ \E f \in Folders : NewFolder(f)

SpecMonitorSignals == InitMonitor /\ [][NextMonitorSignals]_vars

\* C25: once the monitor has ingested a folder with success and marked it processed, it never
\* triggers the ingestion of that folder again, whatever the interleaving of monitoring
\* cycles, stops by a signal and restarts from the state file
ProcessedNeverTriggeredAgain ==
  hist.retriggered = {}

\* no cycle triggers a folder that the running monitor holds as processed
ProcessedInMemoryNotTriggered ==
  [][MonitorCycle => \A t \in report'.triggered : t.folder \notin proc.processed_folders]_vars

\* a folder ingested with success was triggered again by a monitor restarted after a signal
\* that found nothing pending and saved nothing
IngestedFolderTriggeredAgainSeen ==
  /\ hist.retriggered # {}
  /\ \E t \in report.triggered : t.folder \in hist.retriggered
  /\ fs.state_file = None

(***************************************************************************)
(* populate_data, _process_filters: the FilterPosition rows of one filter  *)
(* wheel, brought in line with the filter list of the configuration.  Here *)
(* hist holds the FilterPosition table of the wheel and report the last    *)
(* call.  FilterHistory rows, written on a change of position, are left    *)
(* out.                                                                    *)
(***************************************************************************)
\* the entries of a filter list: names of Filter.FILTER_CHOICES, and empty slots
FilterNames == {<<"g">>, <<"r">>, <<"m","4","0","0">>, <<"S","l","o","t","3">>}

\* the longest filter list
MaxFilters == 3

\* filter_name.startswith('Slot')
is_slot(filter_name) == startswith(filter_name, <<"S","l","o","t">>)

\* the filter lists of the configuration: no filter is listed twice
FilterLists ==
  {filters \in UNION {[1..n -> FilterNames] : n \in 0..MaxFilters} :
     \A i, j \in 1..Len(filters) : (i # j /\ filters[i] = filters[j]) => is_slot(filters[i])}

\* set(f for f in filters if not f.startswith('Slot'))
config_filters(filters) == {filters[i] : i \in {i \in 1..Len(filters) : ~is_slot(filters[i])}}

\* the filter has default values: a ugriz name, or a medium band name
known_filter(filter_name) ==
  filter_name \in {<<"u">>, <<"g">>, <<"r">>, <<"i">>, <<"z">>} \/ startswith(filter_name, <<"m">>)

\* unique_together (filter_wheel, position): the row cannot be written at that position
position_taken(rows, filter_name, position) ==
  \E r \in rows : r.position = position /\ r.filter # filter_name

\* the loop over enumerate(filters, start=1) from position on; raised is the IntegrityError of
\* the create or the save that ends it
RECURSIVE place_filters(_, _, _)
place_filters(rows, filters, position) ==
  IF position > Len(filters) THEN [rows |-> rows, raised |-> FALSE]
  ELSE LET filter_name == filters[position]
           mine == {r \in rows : r.filter = filter_name}
       IN  IF is_slot(filter_name) \/ ~known_filter(filter_name)
           THEN place_filters(rows, filters, position + 1)
           ELSE IF \E r \in mine : r.position = position
           THEN place_filters(rows, filters, position + 1)
           ELSE IF position_taken(rows, filter_name, position)
           THEN [rows |-> rows, raised |-> TRUE]
           ELSE place_filters((rows \ mine) \cup {[filter |-> filter_name, position |-> position]},
                              filters, position + 1)

\* _process_filters: the rows of filters that left the configuration are deleted, then the loop
process_filters(rows, filters) ==
  place_filters({r \in rows : r.filter \in config_filters(filters)}, filters, 1)

\* a call of _process_filters for the wheel
ProcessFilters(filters) ==
  LET r == process_filters(hist.filter_positions, filters)
  IN  /\ hist' = [filter_positions |-> r.rows]
      /\ report' = [kind |-> "filters", filters |-> filters, installed |-> hist.filter_positions,
                    raised |-> r.raised]
      /\ UNCHANGED <<fs, frames, targets, tiles, nights, proc>>

InitFilters ==
  /\ fs = [files |-> {}, root_ok |-> TRUE, denied |-> {}]
  /\ frames = <<>>
  /\ targets = {}
  /\ tiles = {}
  /\ nights = {}
  /\ proc = <<>>
  /\ hist = [filter_positions |-> {}]
  /\ report = [kind |-> "filters", filters |-> <<>>, installed |-> {}, raised |-> FALSE]

NextFilters == \E filters \in FilterLists : ProcessFilters(filters)

SpecFilters == InitFilters /\ [][NextFilters]_vars

\* the rows of the wheel are those of the filter list
rows_match(rows, filters) ==
  /\ \A i \in 1..Len(filters) :
       ~is_slot(filters[i]) => [filter |-> filters[i], position |-> i] \in rows
  /\ \A r \in rows : r.filter \in config_filters(filters)
  /\ \A r1, r2 \in rows : r1.position = r2.position => r1 = r2

\* C30: after _process_filters for a filter wheel and any filter list of the configuration,
\* a permutation of the installed filters included, the FilterPosition rows of the wheel match
\* the list: each filter that is not a Slot, at 1-based index i, has a row with position i,
\* a filter absent from the list has no row, and no two rows share a position
FilterPositionsMatchConfig ==
  rows_match(hist.filter_positions, report.filters)

\* a call that ends without an IntegrityError leaves the rows of the list, and the rows never
\* share a position or hold a filter absent from the last list
FilterPositionsMatchConfigUnlessRaised ==
  /\ ~report.raised => rows_match(hist.filter_positions, report.filters)
  /\ \A r1, r2 \in hist.filter_positions : r1.position = r2.position => r1 = r2
  /\ \A r \in hist.filter_positions : r.filter \in config_filters(report.filters)

\* a list that permutes the installed filters was processed, and the rows are not those of it
PermutedFiltersNotPlacedSeen ==
  /\ report.raised
  /\ config_filters(report.filters) = {r.filter : r \in report.installed}
  /\ Len(report.filters) = Cardinality(report.installed)
  /\ ~rows_match(hist.filter_positions, report.filters)

=============================================================================
